---- MODULE Spec2Model ----
(***************************************************************************)
(* Model of bot/services/purchase.py: the three-phase ticket purchase      *)
(* automation (prepare_purchase, confirm_and_pay, complete_3ds,            *)
(* cancel_purchase) and the per-session expiry timer, as asyncio tasks     *)
(* that interleave at their await points.                                  *)
(*                                                                         *)
(* A step of a task is the code between two suspensions: it starts when    *)
(* the awaited browser operation completes (or raises) and runs up to the  *)
(* next await.  Page contents, URLs and operation failures are chosen by   *)
(* the environment.                                                        *)
(*                                                                         *)
(* Spec interleaves the calls and timers, with the page work of a phase    *)
(* call as one suspended section; SpecSeq is Spec with the calls of one    *)
(* user following one another; SpecWalk follows the page work of a single  *)
(* phase call await by await; SpecFill follows one call of the field-fill  *)
(* helper _try_fill; SpecChat follows the handlers of                      *)
(* bot/handlers/sessions.py; SpecCard follows one call of _fill_card and   *)
(* SpecForm one run of the order-form script of prepare_purchase.          *)
(***************************************************************************)
EXTENDS Integers, FiniteSets, Sequences, TLC

\* ---------------------------------------------------------------- bounds

\* Handler tasks that can be in flight at the same time.
MaxTasks == 2

\* Playwright drivers (pw / browser / page bundles) ever started.
MaxBrowsers == 2

\* Length of the candidate-selector lists handed to _try_fill.
MaxSelectors == 3

\* Rows of the orders table.
MaxOrders == 2

\* Iframes of the bank page.
MaxFrames == 2

\* Agreement checkboxes of the order form that are not checked.
MaxCheckboxes == 2

\* ------------------------------------------------------ program constants

\* for _ in range(60): the post-submit navigation wait of confirm_and_pay
NAV_POLLS == 60
\* for _ in range(40): the payment-result wait of confirm_and_pay
PAY_POLLS == 40
\* for _ in range(60): the code-result wait of complete_3ds
CODE_POLLS == 60

\* config.stadium_id
STADIUM_ID == 2

\* The month/year selector pairs the fallback loop of _fill_card goes through.
MonthYearPairs == 2

Users == {"u1", "u2"}
Slots == 1..MaxTasks
Browsers == 1..MaxBrowsers

\* Values of js_result["total"] read from the order form.
Totals == {"1500 R", "?"}

\* PurchaseResult.error texts, rendered in English (the source's are
\* Russian); None is "None".
ERR_NO_PLAYWRIGHT == "Playwright not installed"
ERR_SESSION_EXPIRED == "Session expired. Choose the slot again."
ERR_SITE_ERROR == "The site returned an error while placing the order."
ERR_NO_BANK == "Could not get to the bank page."
ERR_FILL_FAILED == "Could not fill the card automatically. Open the link."
ERR_NEED_SMS == "The bank asked for an SMS code."
ERR_UNKNOWN_STATUS == "Payment status unknown. Check by the link."
ERR_3DS_EXPIRED == "3DS session expired. Start the purchase again."
ERR_NO_CODE_FIELD == "SMS code field not found. Open the link."
ERR_WRONG_CODE == "Wrong code. Try again."
ERR_DECLINED == "Payment declined by the bank."
ERR_3DS_UNDETERMINED == "Could not determine the 3DS result. Check by the link."
\* str(e) of a caught exception of a browser operation
ERR_EXCEPTION == "str(e)"
\* the form script's {error: 'No plus btn and no input'}
ERR_NO_QUANTITY == "No plus btn and no input"

VARIABLES
    sessions,       \* _sessions: user -> stored PurchaseSession (0: no key)
    browsers,       \* every pw/browser/page bundle and its PurchaseSession
    tasks,          \* the in-flight calls of the module's functions
    has_playwright, \* whether `import playwright` succeeds in this process
    walk,           \* the page work of one phase call, await by await
    fill,           \* one call of the field-fill helper _try_fill
    chat,           \* the bot's handlers: FSM storage and the orders table
    card,           \* one call of the card-entry helper _fill_card
    form            \* one run of the order-form script of prepare_purchase

vars ==
    <<sessions, browsers, tasks, has_playwright, walk, fill, chat, card, form>>

\* ----------------------------------------------------------------- values

\* @dataclass PurchaseResult; ret tells a returned value from an exception
\* that left the call ("raised") and from cancel_purchase's None ("void").
PurchaseResult(success, payment_url, error, total_amount, needs_sms) ==
    [ret |-> "value", success |-> success, payment_url |-> payment_url,
     error |-> error, total_amount |-> total_amount, needs_sms |-> needs_sms]

NoResult == [PurchaseResult(FALSE, "None", "None", "None", FALSE)
                EXCEPT !.ret = "none"]
Raised == [NoResult EXCEPT !.ret = "raised"]
Void == [NoResult EXCEPT !.ret = "void"]

\* A driver not started yet.
\*   stage: "free" | "pw" (async_playwright().start() returned)
\*          | "browser" | "page" | "session" (PurchaseSession constructed)
\*   timer: the _cleanup_task: "none" | "armed" | "fired" | "cancelled"
\*   bclose, pwstop: invocations of browser.close() and pw.stop()
\*   stale: a cancel_purchase call for the user returned after the session
\*          was constructed (history, read by no step)
FreeBrowser ==
    [user |-> "-", stage |-> "free", total |-> "None", timer |-> "none",
     bclose |-> 0, pwstop |-> 0, stale |-> FALSE]

\* No phase call is being walked through.
\*   loop, polls: the polling loop last entered and its iterations so far
\*   exhausted: the result loop ran through all its iterations
\*   low: the page text (URL + body, lowercased) last classified
\*   res: what the call returns
\*   first_url, url: bank_url as first read after the navigation wait and as
\*       last read ("origin": it contains sportvsegda.ru; "bank": it does not)
\*   error_word: the origin page's content had an error word
\*   rechecks: reads of page.url after the 5 s grace wait
\*   entered: the call got to the card entry (the 3 s wait and _fill_card)
\*   typed: _fill_card typed card data; clicked: _submit_payment clicked
NoWalk ==
    [fn |-> "none", pc |-> "idle", total |-> "None", loop |-> "none",
     polls |-> 0, exhausted |-> FALSE, low |-> {}, branch |-> "none",
     res |-> NoResult, first_url |-> "none", url |-> "none",
     error_word |-> FALSE, rechecks |-> 0, entered |-> FALSE,
     typed |-> FALSE, clicked |-> FALSE]

\* The selectors a candidate list is made of.
Selectors == {"sel1", "sel2", "sel3"}

\* No _try_fill call is being followed.
\*   selectors, page: the arguments (page: what target.locator(sel) gives)
\*   i: the position in the list of the selector being tried
\*   typed: the selectors whose element the value was typed into, in order
\*   ret: "none" | "True" | "False"
NoFill ==
    [pc |-> "idle", selectors |-> <<>>, page |-> [x \in Selectors |-> "absent"],
     i |-> 0, typed |-> <<>>, ret |-> "none"]

\* An FSM context without data; person_idx -1 is the absent key.
NoData == [person_idx |-> -1, date |-> "None", time_range |-> "None"]

\* No handler has run.
\*   fsm: per user, the FSM state and its data
\*   orders: the rows save_order inserted, in order
\*   last: the handler that ran last: its update (callback fields or message
\*         text), the FSM state it was dispatched in, the call it made to
\*         the purchase service and the result that call returned, and
\*         whether an exception left the handler
NoLast ==
    [handler |-> "none", user |-> "-", person_idx |-> "-", date |-> "None",
     time_range |-> "None", raised |-> FALSE, text |-> <<>>, from |-> "None",
     called |-> "none", result |-> NoResult]

NoChat ==
    [fsm |-> [u \in Users |-> [state |-> "None", data |-> NoData]],
     orders |-> <<>>,
     last |-> NoLast]

\* No _fill_card call is being followed.
\*   card_expiry: the argument, a string of characters
\*   target: the frame the fields are looked up in (0: the page itself)
\*   calls: the field lookups made so far, in order
\*   typed: the values typed so far and the fields they went into
\*   card_ok, expiry_ok, cvv_ok: the locals of the call
\*   pair: the month/year selector pair being tried
\*   ret: "none" | "True" | "False" | "raised"
NoCard ==
    [pc |-> "idle", card_expiry |-> <<>>, frames |-> <<>>, target |-> 0,
     calls |-> <<>>, typed |-> <<>>, card_ok |-> FALSE, expiry_ok |-> FALSE,
     cvv_ok |-> FALSE, pair |-> 0, ret |-> "none"]

\* The order-form script has not started.
\*   promo: the promo argument ("" for a person without one)
\*   acts: what the script did to the form or read from it, in order
\*   displayed, price: the text of the total element and of the unit price
\*       element of the page (<<"absent">>: no such element; <<"unread">>:
\*       the script has not got to the total)
\*   total: the total of the returned object
\*   ret: "none" | "success" | "error"
NoForm ==
    [pc |-> "idle", promo |-> "", acts |-> <<>>, displayed |-> <<"unread">>,
     price |-> <<"unread">>, total |-> <<>>, ret |-> "none"]

IdleTask ==
    [kind |-> "none", user |-> "-", pc |-> "idle", sess |-> 0, prev |-> 0,
     reins |-> FALSE, exc |-> "None", res |-> NoResult]

\* ----------------------------------------------------------------- helpers

\* The lowest idle slot runs the next call.
FreeSlot(c) ==
    /\ tasks[c].pc = "idle"
    /\ \A d \in Slots : d < c => tasks[d].pc # "idle"

\* prepare_purchase calls that have not started their driver yet.
Starting ==
    {c \in Slots : tasks[c].pc \in {"pp_cancel_b", "pp_cancel_p", "pp_start"}}

\* Drivers not started yet.
FreeBrowsers == {b \in Browsers : browsers[b].stage = "free"}

\* The next unused driver id (0 when MaxBrowsers were started).
NextBrowser ==
    IF \E b \in Browsers : browsers[b].stage = "free"
    THEN CHOOSE b \in Browsers :
            /\ browsers[b].stage = "free"
            /\ \A x \in Browsers : x < b => browsers[x].stage # "free"
    ELSE 0

\* Mutation: _sessions.get(user_id) in place of _sessions.pop(user_id, None).
pop_keeps_entry(reg, u) == reg

\* Mutation: _sessions.clear() in place of _sessions.pop(user_id, None).
pop_everyone(reg, u) == [v \in Users |-> 0]

\* _sessions.pop(user_id, None): the dict afterwards.
pop(reg, u) == [reg EXCEPT ![u] = 0]

\* _sessions[user_id] = session: the dict afterwards.
store(reg, u, s) == [reg EXCEPT ![u] = s]

\* PurchaseSession.close up to its first await: cancel the cleanup task when
\* it is not done, then invoke browser.close().
close_begin(b, s) ==
    [b EXCEPT ![s].timer = IF @ = "armed" THEN "cancelled" ELSE @,
              ![s].bclose = @ + 1]

\* PurchaseSession.close after `await self.browser.close()` returned or
\* raised an Exception (swallowed): invoke pw.stop().
close_stop(b, s) == [b EXCEPT ![s].pwstop = @ + 1]

SetTask(c, t) == tasks' = [tasks EXCEPT ![c] = t]

\* Mutation: close() without its try/except around the awaited operation.
close_propagates(raised, t, next) ==
    IF raised THEN [t EXCEPT !.pc = "done", !.res = Raised]
    ELSE [t EXCEPT !.pc = next]

\* PurchaseSession.close: `try: await <operation> except Exception: pass`;
\* the call goes on whether the operation returned or raised.
close_swallows(raised, t, next) == [t EXCEPT !.pc = next]

\* ------------------------------------------------------------------- Init

Init ==
    /\ sessions = [u \in Users |-> 0]
    /\ browsers = [b \in Browsers |-> FreeBrowser]
    /\ tasks = [c \in Slots |-> IdleTask]
    /\ has_playwright \in BOOLEAN
    /\ walk = NoWalk
    /\ fill = NoFill
    /\ chat = NoChat
    /\ card = NoCard
    /\ form = NoForm

\* ------------------------------------------------------ PurchaseSession

\* _auto_cleanup after asyncio.sleep(SESSION_TTL): pop the user's registry
\* entry (whichever session it is), then close().  close() cancels
\* self._cleanup_task, which is the running task itself, and invokes
\* browser.close(); at that await the task receives CancelledError, which
\* `except Exception` does not catch: pw.stop() is not reached.
auto_cleanup(s) ==
    /\ browsers[s].timer = "armed"
    /\ sessions' = pop(sessions, browsers[s].user)
    /\ browsers' = [browsers EXCEPT ![s].timer = "fired", ![s].bclose = @ + 1]
    /\ UNCHANGED <<tasks, has_playwright>>

\* ------------------------------------------------------- prepare_purchase

\* Mutation: prepare_purchase without its await cancel_purchase(user_id).
prepare_cancels_nothing(u) == 0

\* What cancel_purchase(user_id) at the top of prepare_purchase pops.
prepare_cancels(u) == sessions[u]

\* After cancel_purchase: the playwright import, then
\* `pw = await async_playwright().start()`.
prepare_import(t) ==
    IF has_playwright
    THEN [t EXCEPT !.pc = "pp_start"]
    ELSE [t EXCEPT !.pc = "done",
                   !.res = PurchaseResult(FALSE, "None", ERR_NO_PLAYWRIGHT,
                                          "None", FALSE)]

\* prepare_purchase is called: cancel_purchase(user_id) pops the stored
\* session and starts closing it; with nothing stored the call runs on to
\* the import and the driver start.
prepare_purchase(c, u) ==
    /\ FreeSlot(c)
    /\ Cardinality(FreeBrowsers) > Cardinality(Starting)
    /\ LET prev == prepare_cancels(u)
           t == [IdleTask EXCEPT !.kind = "prepare", !.user = u, !.prev = prev]
       IN  IF prev # 0
           THEN /\ sessions' = pop(sessions, u)
                /\ browsers' = close_begin(browsers, prev)
                /\ SetTask(c, [t EXCEPT !.pc = "pp_cancel_b"])
           ELSE /\ SetTask(c, prepare_import(t))
                /\ UNCHANGED <<sessions, browsers>>
    /\ UNCHANGED has_playwright

\* cancel_purchase inside prepare_purchase: browser.close() is over.
prepare_cancel_stop(c) ==
    /\ tasks[c].kind = "prepare" /\ tasks[c].pc = "pp_cancel_b"
    /\ \E raised \in BOOLEAN :
          LET t == close_swallows(raised, tasks[c], "pp_cancel_p")
          IN  /\ SetTask(c, t)
              /\ browsers' = IF t.pc = "pp_cancel_p"
                             THEN close_stop(browsers, tasks[c].prev)
                             ELSE browsers
    /\ UNCHANGED <<sessions, has_playwright>>

\* cancel_purchase inside prepare_purchase: pw.stop() is over, close() and
\* cancel_purchase return.
prepare_cancel_done(c) ==
    /\ tasks[c].kind = "prepare" /\ tasks[c].pc = "pp_cancel_p"
    /\ \E raised \in BOOLEAN :
          LET t == close_swallows(raised, tasks[c], "closed")
          IN  SetTask(c, IF t.pc = "closed" THEN prepare_import(t) ELSE t)
    /\ UNCHANGED <<sessions, browsers, has_playwright>>

\* async_playwright().start() returns (the driver exists, chromium.launch is
\* awaited) or raises, outside the try block: the exception leaves the call.
prepare_start(c) ==
    /\ tasks[c].kind = "prepare" /\ tasks[c].pc = "pp_start"
    /\ \/ /\ browsers' = [browsers EXCEPT ![NextBrowser] =
                            [FreeBrowser EXCEPT !.user = tasks[c].user,
                                                !.stage = "pw"]]
          /\ SetTask(c, [tasks[c] EXCEPT !.pc = "pp_launch",
                                         !.sess = NextBrowser])
       \/ /\ SetTask(c, [tasks[c] EXCEPT !.pc = "done", !.res = Raised])
          /\ UNCHANGED browsers
    /\ UNCHANGED <<sessions, has_playwright>>

\* The except block of prepare_purchase up to its first await:
\* the diagnostic page.evaluate if page, else browser.close() if browser,
\* else pw.stop().
prepare_except(c, b, e) ==
    LET s == tasks[c].sess
        stage == b[s].stage
    IN  /\ browsers' = IF stage = "page" THEN b
                       ELSE IF stage = "browser"
                            THEN [b EXCEPT ![s].bclose = @ + 1]
                            ELSE [b EXCEPT ![s].pwstop = @ + 1]
        /\ SetTask(c, [tasks[c] EXCEPT !.exc = e, !.pc =
                          IF stage = "page" THEN "pp_fail_diag"
                          ELSE IF stage = "browser" THEN "pp_fail_b"
                          ELSE "pp_fail_p"])

\* pw.chromium.launch returns (browser.new_context, add_init_script and
\* new_page follow) or raises.
prepare_launch(c) ==
    /\ tasks[c].kind = "prepare" /\ tasks[c].pc = "pp_launch"
    /\ \/ /\ browsers' = [browsers EXCEPT ![tasks[c].sess].stage = "browser"]
          /\ SetTask(c, [tasks[c] EXCEPT !.pc = "pp_context"])
       \/ prepare_except(c, browsers, ERR_EXCEPTION)
    /\ UNCHANGED <<sessions, has_playwright>>

\* new_context / add_init_script / new_page return (page.goto,
\* wait_for_selector, wait_for_timeout and the form script follow) or raise.
prepare_context(c) ==
    /\ tasks[c].kind = "prepare" /\ tasks[c].pc = "pp_context"
    /\ \/ /\ browsers' = [browsers EXCEPT ![tasks[c].sess].stage = "page"]
          /\ SetTask(c, [tasks[c] EXCEPT !.pc = "pp_form"])
       \/ prepare_except(c, browsers, ERR_EXCEPTION)
    /\ UNCHANGED <<sessions, has_playwright>>

\* What the form script returned: {success, total} or {error}.
JsResults ==
    {[success |-> TRUE, total |-> t, error |-> "None"] : t \in Totals}
        \cup {[success |-> FALSE, total |-> "None", error |-> ERR_NO_QUANTITY]}

\* session = PurchaseSession(pw, browser, page, total_amount, user_id):
\* the constructor arms the cleanup task.
PurchaseSession(b, s, total) ==
    [b EXCEPT ![s].stage = "session", ![s].total = total, ![s].timer = "armed"]

\* goto / wait_for_selector / wait_for_timeout / evaluate are over: the
\* script succeeded (the session is constructed and stored, the call
\* returns success), the script reported an error (raise Exception(error))
\* or one of the operations raised.
prepare_form(c) ==
    /\ tasks[c].kind = "prepare" /\ tasks[c].pc = "pp_form"
    /\ LET s == tasks[c].sess
           u == tasks[c].user
       IN  \/ \E js \in JsResults :
                IF js.success
                THEN /\ browsers' = PurchaseSession(browsers, s, js.total)
                     /\ sessions' = store(sessions, u, s)
                     /\ SetTask(c, [tasks[c] EXCEPT !.pc = "done", !.res =
                            PurchaseResult(TRUE, "None", "None", js.total,
                                           FALSE)])
                ELSE /\ prepare_except(c, browsers, js.error)
                     /\ UNCHANGED sessions
           \/ /\ prepare_except(c, browsers, ERR_EXCEPTION)
              /\ UNCHANGED sessions
    /\ UNCHANGED has_playwright

\* Mutation: the except block going on without browser.close().
prepare_fail_diag_leaks(c) ==
    /\ tasks[c].kind = "prepare" /\ tasks[c].pc = "pp_fail_diag"
    /\ SetTask(c, [tasks[c] EXCEPT !.pc = "pp_fail_b"])
    /\ UNCHANGED <<sessions, browsers, has_playwright>>

\* except block: the diagnostic evaluate returned or raised (swallowed);
\* browser.close() is invoked.
prepare_fail_diag(c) ==
    /\ tasks[c].kind = "prepare" /\ tasks[c].pc = "pp_fail_diag"
    /\ browsers' = [browsers EXCEPT ![tasks[c].sess].bclose = @ + 1]
    /\ SetTask(c, [tasks[c] EXCEPT !.pc = "pp_fail_b"])
    /\ UNCHANGED <<sessions, has_playwright>>

\* except block: browser.close() returned or raised (swallowed); pw.stop()
\* is invoked.
prepare_fail_close(c) ==
    /\ tasks[c].kind = "prepare" /\ tasks[c].pc = "pp_fail_b"
    /\ browsers' = [browsers EXCEPT ![tasks[c].sess].pwstop = @ + 1]
    /\ SetTask(c, [tasks[c] EXCEPT !.pc = "pp_fail_p"])
    /\ UNCHANGED <<sessions, has_playwright>>

\* except block: pw.stop() returned or raised (swallowed);
\* return PurchaseResult(success=False, error=str(e)).
prepare_fail_stop(c) ==
    /\ tasks[c].kind = "prepare" /\ tasks[c].pc = "pp_fail_p"
    /\ SetTask(c, [tasks[c] EXCEPT !.pc = "done", !.res =
            PurchaseResult(FALSE, "None", tasks[c].exc, "None", FALSE)])
    /\ UNCHANGED <<sessions, browsers, has_playwright>>

\* ------------------------------------------------------ the phase calls

At(c, kind, pc) == tasks[c].kind = kind /\ tasks[c].pc = pc

\* Mutation: the phase not passing session.total_amount on.
Total_dropped(c) == "None"

\* total = session.total_amount
Total(c) == browsers[tasks[c].sess].total

\* Mutation: the missing session reported through the generic except path.
result_expired_generic(error) ==
    PurchaseResult(FALSE, "None", ERR_EXCEPTION, "None", FALSE)

\* The return statements of confirm_and_pay and complete_3ds, by branch.
result_expired(error) == PurchaseResult(FALSE, "None", error, "None", FALSE)
result_site_error(total) ==
    PurchaseResult(FALSE, "None", ERR_SITE_ERROR, total, FALSE)
result_no_bank(total) ==
    PurchaseResult(FALSE, "None", ERR_NO_BANK, total, FALSE)
result_fill_failed(total) ==
    PurchaseResult(FALSE, "bank_url", ERR_FILL_FAILED, total, FALSE)
result_success(total) ==
    PurchaseResult(TRUE, "None", "None", total, FALSE)

\* Mutation: the 3DS branch returning success=True.
result_needs_sms_success(total) ==
    PurchaseResult(TRUE, "None", ERR_NEED_SMS, total, TRUE)

result_needs_sms(total) ==
    PurchaseResult(FALSE, "None", ERR_NEED_SMS, total, TRUE)

\* Mutation: the timeout result without its link.
result_unknown_status_no_link(total) ==
    PurchaseResult(FALSE, "None", ERR_UNKNOWN_STATUS, total, FALSE)

result_unknown_status(total) ==
    PurchaseResult(FALSE, "final_url", ERR_UNKNOWN_STATUS, total, FALSE)
result_no_code_field(total) ==
    PurchaseResult(FALSE, "page_url", ERR_NO_CODE_FIELD, total, FALSE)

\* Mutation: the wrong-code branch also handing out the page link.
result_wrong_code_link(total) ==
    PurchaseResult(FALSE, "page_url", ERR_WRONG_CODE, total, TRUE)

result_wrong_code(total) ==
    PurchaseResult(FALSE, "None", ERR_WRONG_CODE, total, TRUE)
result_declined(total) ==
    PurchaseResult(FALSE, "None", ERR_DECLINED, total, FALSE)
result_undetermined(total) ==
    PurchaseResult(FALSE, "final_url", ERR_3DS_UNDETERMINED, total, FALSE)
\* Mutation: the except block returning no error text.
result_exception_silent(total) ==
    PurchaseResult(FALSE, "None", "None", total, FALSE)

\* except Exception as e: return PurchaseResult(False, error=str(e), total)
result_exception(total) ==
    PurchaseResult(FALSE, "None", ERR_EXCEPTION, total, FALSE)

\* What a branch of confirm_and_pay returns.
confirm_result(branch, total) ==
    CASE branch = "site_error" -> result_site_error(total)
      [] branch = "no_bank" -> result_no_bank(total)
      [] branch = "fill_failed" -> result_fill_failed(total)
      [] branch = "success" -> result_success(total)
      [] branch = "needs_sms" -> result_needs_sms(total)
      [] branch = "unknown_status" -> result_unknown_status(total)
      [] branch = "exception" -> result_exception(total)

\* What a branch of complete_3ds returns.
complete_result(branch, total) ==
    CASE branch = "no_code_field" -> result_no_code_field(total)
      [] branch = "success" -> result_success(total)
      [] branch = "wrong_code" -> result_wrong_code(total)
      [] branch = "declined" -> result_declined(total)
      [] branch = "undetermined" -> result_undetermined(total)
      [] branch = "exception" -> result_exception(total)

\* The branches that run `_sessions[user_id] = session` before returning.
confirm_reinserts(branch) == branch = "needs_sms"

\* Mutation: the wrong-code branch treated as terminal.
complete_reinserts_never(branch) == FALSE

complete_reinserts(branch) == branch = "wrong_code"

\* The page text (URL + body, lowercased) as the vocabularies it contains:
\*   "success": success / успешно / оплачен     "paid": paid
\*   "3ds": an indicator of _is_3ds_page         "wrong": the wrong-code words
\*   "declined": the decline words
Vocab == {"success", "paid", "3ds", "wrong", "declined"}

\* any(w in low for w in ("success", "paid", "успешно", "оплачен"))
has_success(low) == low \cap {"success", "paid"} # {}

\* _is_3ds_page(low)
is_3ds_page(low) == "3ds" \in low

\* One classification of the result wait of confirm_and_pay.
confirm_classify(low) ==
    IF has_success(low) THEN "success"
    ELSE IF is_3ds_page(low) THEN "needs_sms"
    ELSE "again"

\* Mutation: the decline words tested before the wrong-code words.
complete_classify_decline_first(low) ==
    IF has_success(low) THEN "success"
    ELSE IF "declined" \in low THEN "declined"
    ELSE IF "wrong" \in low THEN "wrong_code"
    ELSE "again"

\* One classification of the result wait of complete_3ds.
complete_classify(low) ==
    IF has_success(low) THEN "success"
    ELSE IF "wrong" \in low THEN "wrong_code"
    ELSE IF "declined" \in low THEN "declined"
    ELSE "again"

\* The final check of complete_3ds: success / успешно / оплачен.
final_success(low) == "success" \in low

\* How the page work of confirm_and_pay can end: at an early return or in
\* the except block, or in the result wait with the page text of its last
\* poll (a last poll that matches nothing is the exhausted wait).
ConfirmEnds ==
    {[at |-> a, low |-> {}] :
        a \in {"site_error", "no_bank", "fill_failed", "exception"}}
        \cup {[at |-> "poll", low |-> l] : l \in SUBSET Vocab}

\* The branch confirm_and_pay returns from.
confirm_branch(e) ==
    IF e.at # "poll" THEN e.at
    ELSE IF confirm_classify(e.low) = "again" THEN "unknown_status"
    ELSE confirm_classify(e.low)

\* How the page work of complete_3ds can end: at the early return or in the
\* except block, in the result wait with the page text of the poll that
\* matched, or in the final check after the exhausted wait.
CompleteEnds ==
    {[at |-> a, low |-> {}] : a \in {"no_code_field", "exception"}}
        \cup {[at |-> "poll", low |-> l] :
                l \in {x \in SUBSET Vocab : complete_classify(x) # "again"}}
        \cup {[at |-> "final", low |-> l] : l \in SUBSET Vocab}

\* The branch complete_3ds returns from.
complete_branch(e) ==
    IF e.at = "poll" THEN complete_classify(e.low)
    ELSE IF e.at = "final"
         THEN IF final_success(e.low) THEN "success" ELSE "undetermined"
    ELSE e.at

\* The branches of a phase and their results.
Branches(kind) ==
    IF kind = "confirm" THEN {confirm_branch(e) : e \in ConfirmEnds}
    ELSE {complete_branch(e) : e \in CompleteEnds}

Reinserts(kind, branch) ==
    IF kind = "confirm" THEN confirm_reinserts(branch)
    ELSE complete_reinserts(branch)

Result(kind, branch, total) ==
    IF kind = "confirm" THEN confirm_result(branch, total)
    ELSE complete_result(branch, total)

\* What `_sessions.pop(user_id, None)` of a phase returns.
take(u) == sessions[u]

\* A phase is called: pop the session, or return the session-expired result
\* when there is none.  With a session the page work begins.
phase_call(c, u, kind, error) ==
    /\ FreeSlot(c)
    /\ LET s == take(u)
           t == [IdleTask EXCEPT !.kind = kind, !.user = u, !.sess = s]
       IN  IF s = 0
           THEN /\ SetTask(c, [t EXCEPT !.pc = "done",
                                        !.res = result_expired(error)])
                /\ UNCHANGED <<sessions, browsers>>
           ELSE /\ sessions' = pop(sessions, u)
                /\ SetTask(c, [t EXCEPT !.pc = "running"])
                /\ UNCHANGED browsers
    /\ UNCHANGED has_playwright

confirm_and_pay(c, u) == phase_call(c, u, "confirm", ERR_SESSION_EXPIRED)

complete_3ds(c, u) == phase_call(c, u, "3ds", ERR_3DS_EXPIRED)

\* Mutation: the 3DS / wrong-code branch without _sessions[user_id] = session.
after_branch_no_store(reg, u, s, reinserts) == reg

\* The registry after the branch: needs_sms and wrong code put the session
\* back with `_sessions[user_id] = session`.
after_branch(reg, u, s, reinserts) ==
    IF reinserts THEN store(reg, u, s) ELSE reg

\* finally: `if user_id not in _sessions`
finally_closes(reg, u) == reg[u] = 0

\* The page work of a phase call ends in one of its branches and the finally
\* block runs.  None of the awaits between the pop and the return touches
\* the registry or another session: they are one suspended section.  When
\* the finally block closes the session, the call keeps whether its branch
\* re-inserted, and its result (a local of the call that nothing reads
\* before the return) is drawn among that kind's when the call returns.
phase_end(c, kind, branch) ==
    LET t == tasks[c]
        reg == after_branch(sessions, t.user, t.sess, Reinserts(kind, branch))
    IN  /\ At(c, kind, "running")
        /\ sessions' = reg
        /\ IF finally_closes(reg, t.user)
           THEN /\ browsers' = close_begin(browsers, t.sess)
                /\ SetTask(c, [t EXCEPT !.pc = "close_b",
                                        !.reins = Reinserts(kind, branch)])
           ELSE /\ UNCHANGED browsers
                /\ SetTask(c, [t EXCEPT !.pc = "done",
                                        !.res = Result(kind, branch, Total(c))])
        /\ UNCHANGED has_playwright

\* confirm_and_pay from the submit click to its return statement.
confirm_run(c) ==
    \E e \in ConfirmEnds : phase_end(c, "confirm", confirm_branch(e))

\* complete_3ds from the code entry to its return statement.
complete_run(c) ==
    \E e \in CompleteEnds : phase_end(c, "3ds", complete_branch(e))

\* --------------------------------------------------------- cancel_purchase

\* cancel_purchase(user_id) called by a handler: pop, and close a session
\* that was stored.
cancel_purchase(c, u) ==
    /\ FreeSlot(c)
    /\ LET s == sessions[u]
           t == [IdleTask EXCEPT !.kind = "cancel", !.user = u, !.sess = s]
       IN  IF s # 0
           THEN /\ sessions' = pop(sessions, u)
                /\ browsers' = close_begin(browsers, s)
                /\ SetTask(c, [t EXCEPT !.pc = "close_b", !.res = Void])
           ELSE /\ SetTask(c, [t EXCEPT !.pc = "done", !.res = Void])
                /\ UNCHANGED <<sessions, browsers>>
    /\ UNCHANGED has_playwright

\* ------------------------------------------------- close() of a held session

\* session.close(): browser.close() returned or raised (swallowed); pw.stop()
\* is invoked.
close_browser_done(c) ==
    /\ tasks[c].pc = "close_b"
    /\ \E raised \in BOOLEAN :
          LET t == close_swallows(raised, tasks[c], "close_p")
          IN  /\ SetTask(c, t)
              /\ browsers' = IF t.pc = "close_p"
                             THEN close_stop(browsers, tasks[c].sess)
                             ELSE browsers
    /\ UNCHANGED <<sessions, has_playwright>>

\* session.close(): pw.stop() returned or raised (swallowed); close()
\* returns and the call returns: cancel_purchase None, a phase the result of
\* the branch it took.
close_stop_done(c) ==
    /\ tasks[c].pc = "close_p"
    /\ \E raised \in BOOLEAN :
          LET t == close_swallows(raised, tasks[c], "closed")
          IN  IF t.pc = "done" \/ t.kind = "cancel"
              THEN SetTask(c, [t EXCEPT !.pc = "done"])
              ELSE \E branch \in Branches(t.kind) :
                      /\ Reinserts(t.kind, branch) = t.reins
                      /\ SetTask(c, [t EXCEPT !.pc = "done", !.res =
                              Result(t.kind, branch, Total(c))])
    /\ UNCHANGED <<sessions, browsers, has_playwright>>

\* The sessions of the user that exist when a cancel_purchase call returns
\* to the handler that awaited it are the ones created before that cancel.
cancel_returned(b, kind, u) ==
    [x \in Browsers |->
        IF kind = "cancel" /\ b[x].user = u /\ b[x].stage = "session"
        THEN [b[x] EXCEPT !.stale = TRUE] ELSE b[x]]

\* The caller has the call's result; the task is over.
Return(c) ==
    /\ tasks[c].pc = "done"
    /\ SetTask(c, IdleTask)
    /\ browsers' = cancel_returned(browsers, tasks[c].kind, tasks[c].user)
    /\ UNCHANGED <<sessions, has_playwright>>

\* ------------------------------------------------------------------- Next

\* A call that has returned hands its result to its caller at once: the
\* return statement and the caller's resumption are not separated by an await.
Returning == \E c \in Slots : tasks[c].pc = "done"

\* A driver that no registry entry, no call and no pending timer refers to:
\* nothing can act on it any more.
Unreferenced(b) ==
    /\ browsers[b].stage # "free"
    /\ browsers[b].timer # "armed"
    /\ \A u \in Users : sessions[u] # b
    /\ \A c \in Slots : tasks[c].sess # b /\ tasks[c].prev # b

\* An unreferenced driver and session object is garbage: its record is
\* dropped, and its id names the next driver started.
Forget(b) ==
    /\ Unreferenced(b)
    /\ browsers' = [browsers EXCEPT ![b] = FreeBrowser]
    /\ UNCHANGED <<sessions, tasks, has_playwright>>

Garbage == \E b \in Browsers : Unreferenced(b)

\* The event loop picks a task to resume only when no call is at its return
\* and no garbage is left.  The await-by-await walk-through of a phase call
\* (SpecWalk) is a separate view and stands still here.
Step == ~Returning /\ ~Garbage /\ UNCHANGED <<walk, fill, chat, card, form>>

Next ==
    \/ UNCHANGED <<walk, fill, chat, card, form>> /\ \E c \in Slots : Return(c)
    \/ UNCHANGED <<walk, fill, chat, card, form>> /\ ~Returning /\ \E b \in Browsers : Forget(b)
    \/ Step /\ \E s \in Browsers : auto_cleanup(s)
    \/ Step /\ \E c \in Slots, u \in Users : prepare_purchase(c, u)
    \/ Step /\ \E c \in Slots : prepare_cancel_stop(c)
    \/ Step /\ \E c \in Slots : prepare_cancel_done(c)
    \/ Step /\ \E c \in Slots : prepare_start(c)
    \/ Step /\ \E c \in Slots : prepare_launch(c)
    \/ Step /\ \E c \in Slots : prepare_context(c)
    \/ Step /\ \E c \in Slots : prepare_form(c)
    \/ Step /\ \E c \in Slots : prepare_fail_diag(c)
    \/ Step /\ \E c \in Slots : prepare_fail_close(c)
    \/ Step /\ \E c \in Slots : prepare_fail_stop(c)
    \/ Step /\ \E c \in Slots, u \in Users : confirm_and_pay(c, u)
    \/ Step /\ \E c \in Slots : confirm_run(c)
    \/ Step /\ \E c \in Slots, u \in Users : complete_3ds(c, u)
    \/ Step /\ \E c \in Slots : complete_run(c)
    \/ Step /\ \E c \in Slots, u \in Users : cancel_purchase(c, u)
    \/ Step /\ \E c \in Slots : close_browser_done(c)
    \/ Step /\ \E c \in Slots : close_stop_done(c)

Spec == Init /\ [][Next]_vars

\* No other call for the user is in flight.
Alone(u) == \A d \in Slots : tasks[d].pc = "idle" \/ tasks[d].user # u

\* The calls made for one user follow one another: a call for a user starts
\* only when no other call for that user is in flight.  Timers, and the
\* calls of different users, still interleave freely.
NextSeq ==
    \/ UNCHANGED <<walk, fill, chat, card, form>> /\ \E c \in Slots : Return(c)
    \/ UNCHANGED <<walk, fill, chat, card, form>> /\ ~Returning /\ \E b \in Browsers : Forget(b)
    \/ Step /\ \E s \in Browsers : auto_cleanup(s)
    \/ Step /\ \E c \in Slots, u \in Users : Alone(u) /\ prepare_purchase(c, u)
    \/ Step /\ \E c \in Slots : prepare_cancel_stop(c)
    \/ Step /\ \E c \in Slots : prepare_cancel_done(c)
    \/ Step /\ \E c \in Slots : prepare_start(c)
    \/ Step /\ \E c \in Slots : prepare_launch(c)
    \/ Step /\ \E c \in Slots : prepare_context(c)
    \/ Step /\ \E c \in Slots : prepare_form(c)
    \/ Step /\ \E c \in Slots : prepare_fail_diag(c)
    \/ Step /\ \E c \in Slots : prepare_fail_close(c)
    \/ Step /\ \E c \in Slots : prepare_fail_stop(c)
    \/ Step /\ \E c \in Slots, u \in Users : Alone(u) /\ confirm_and_pay(c, u)
    \/ Step /\ \E c \in Slots : confirm_run(c)
    \/ Step /\ \E c \in Slots, u \in Users : Alone(u) /\ complete_3ds(c, u)
    \/ Step /\ \E c \in Slots : complete_run(c)
    \/ Step /\ \E c \in Slots, u \in Users : Alone(u) /\ cancel_purchase(c, u)
    \/ Step /\ \E c \in Slots : close_browser_done(c)
    \/ Step /\ \E c \in Slots : close_stop_done(c)

SpecSeq == Init /\ [][NextSeq]_vars

\* ------------------------------------- the page work of a phase, by await

\* The walk-through follows one confirm_and_pay or complete_3ds call that has
\* popped its session, from its first browser operation to its return
\* statement; every awaited operation returns what the environment chooses,
\* or raises.

\* The loop tests of the three polling loops.
nav_exhausted(polls) == polls >= NAV_POLLS

\* Mutation: the payment-result wait polling without end.
pay_exhausted_never(polls) == FALSE

pay_exhausted(polls) == polls >= PAY_POLLS
code_exhausted(polls) == polls >= CODE_POLLS

Walking(fn, pc) == walk.fn = fn /\ walk.pc = pc

WalkTo(pc) == walk' = [walk EXCEPT !.pc = pc]

\* A return statement of the call, by branch.
WalkReturn(branch, low) ==
    walk' = [walk EXCEPT !.pc = "done", !.branch = branch, !.low = low,
                         !.res = Result(walk.fn, branch, walk.total)]

\* A return statement inside or after a polling loop, after `polls` polls.
WalkPolled(branch, low, polls) ==
    walk' = [walk EXCEPT !.pc = "done", !.branch = branch, !.low = low,
                         !.polls = polls,
                         !.res = Result(walk.fn, branch, walk.total)]

\* An awaited operation raised: except Exception as e.
WalkRaise == WalkReturn("exception", {})

Still ==
    UNCHANGED <<sessions, browsers, tasks, has_playwright, fill, chat, card,
                form>>

\* page = session.page; total = session.total_amount
walk_begin ==
    /\ walk.fn = "none"
    /\ \E fn \in {"confirm", "3ds"}, total \in Totals :
          walk' = [NoWalk EXCEPT !.fn = fn, !.total = total,
                      !.pc = IF fn = "confirm" THEN "click" ELSE "code_fill"]
    /\ Still

\* await submit.first.click()
walk_click ==
    /\ Walking("confirm", "click")
    /\ \/ walk' = [walk EXCEPT !.pc = "nav_wait", !.loop = "nav", !.polls = 0]
       \/ WalkRaise
    /\ Still

\* for _ in range(60): await page.wait_for_timeout(500);
\*     if page.url != original_url: break
walk_nav_poll ==
    /\ Walking("confirm", "nav_wait")
    /\ \/ \E moved \in BOOLEAN :
             walk' = [walk EXCEPT !.polls = @ + 1, !.pc =
                         IF moved \/ nav_exhausted(walk.polls + 1)
                         THEN "load_state" ELSE "nav_wait"]
       \/ WalkRaise
    /\ Still

\* The values of page.url the checks of confirm_and_pay tell apart.
Urls == {"origin", "bank"}

\* Mutation: the origin-site test never matching.
on_origin_never(url) == FALSE

\* "sportvsegda.ru" in bank_url
on_origin(url) == url = "origin"

\* await page.wait_for_load_state(...); bank_url = page.url;
\* if "sportvsegda.ru" in bank_url: content = await page.content()
walk_load_state ==
    /\ Walking("confirm", "load_state")
    /\ \/ \E url \in Urls :
             walk' = [walk EXCEPT !.first_url = url, !.url = url,
                         !.entered = ~on_origin(url),
                         !.pc = IF on_origin(url) THEN "site_content"
                                ELSE "settle"]
       \/ WalkRaise
    /\ Still

\* page.content() returned: an error word fails the call, otherwise
\* await page.wait_for_timeout(5000)
walk_site_content ==
    /\ Walking("confirm", "site_content")
    /\ \/ \E error_word \in BOOLEAN :
             IF error_word
             THEN walk' = [walk EXCEPT !.error_word = TRUE, !.pc = "done",
                              !.branch = "site_error",
                              !.res = Result("confirm", "site_error",
                                             walk.total)]
             ELSE WalkTo("recheck")
       \/ WalkRaise
    /\ Still

\* the 5 s wait is over: bank_url = page.url;
\* if "sportvsegda.ru" in bank_url: return could-not-reach-bank
walk_recheck ==
    /\ Walking("confirm", "recheck")
    /\ \/ \E url \in Urls :
             IF on_origin(url)
             THEN walk' = [walk EXCEPT !.url = url, !.rechecks = @ + 1,
                              !.pc = "done", !.branch = "no_bank",
                              !.res = Result("confirm", "no_bank", walk.total)]
             ELSE walk' = [walk EXCEPT !.url = url, !.rechecks = @ + 1,
                              !.entered = TRUE, !.pc = "settle"]
       \/ WalkRaise
    /\ Still

\* await page.wait_for_timeout(3000); filled = await _fill_card(...)
walk_settle ==
    /\ Walking("confirm", "settle")
    /\ (WalkTo("fill") \/ WalkRaise)
    /\ Still

\* _fill_card returned or raised (its waits are outside its helpers' except
\* blocks), with or without card data typed: it returns True only when the
\* card number and the CVV were typed; if not filled: return the fill
\* failure; await _submit_payment(page)
walk_fill ==
    /\ Walking("confirm", "fill")
    /\ \E typed \in BOOLEAN :
          \/ \E filled \in BOOLEAN :
                /\ filled => typed
                /\ IF filled
                   THEN walk' = [walk EXCEPT !.typed = typed, !.pc = "submit"]
                   ELSE walk' = [walk EXCEPT !.typed = typed, !.pc = "done",
                                    !.branch = "fill_failed",
                                    !.res = Result("confirm", "fill_failed",
                                                   walk.total)]
          \/ walk' = [walk EXCEPT !.typed = typed, !.pc = "done",
                          !.branch = "exception",
                          !.res = Result("confirm", "exception", walk.total)]
    /\ Still

\* _submit_payment returned (it swallows the faults of its clicks), having
\* clicked the first pay control it found, or none
walk_submit ==
    /\ Walking("confirm", "submit")
    /\ \E clicked \in BOOLEAN :
          walk' = [walk EXCEPT !.pc = "pay_wait", !.loop = "pay", !.polls = 0,
                      !.clicked = clicked]
    /\ Still

\* for _ in range(40): wait_for_timeout(500); low = (url + body).lower();
\* success -> return; 3DS -> re-insert and return; after the loop: timeout
walk_pay_poll ==
    /\ Walking("confirm", "pay_wait")
    /\ \/ \E low \in SUBSET Vocab :
             LET polls == walk.polls + 1
                 class == confirm_classify(low)
             IN  IF class # "again"
                 THEN WalkPolled(class, low, polls)
                 ELSE IF pay_exhausted(polls)
                      THEN walk' = [walk EXCEPT
                              !.pc = "done", !.branch = "unknown_status",
                              !.low = low, !.polls = polls, !.exhausted = TRUE,
                              !.res = Result("confirm", "unknown_status",
                                             walk.total)]
                      ELSE walk' = [walk EXCEPT !.polls = polls, !.low = low]
       \/ WalkRaise
    /\ Still

\* code_filled = await _try_fill(page, ...), then the frames;
\* if not code_filled: return; await _submit_3ds(page)
walk_code_fill ==
    /\ Walking("3ds", "code_fill")
    /\ \/ \E filled \in BOOLEAN :
             IF filled THEN WalkTo("submit")
             ELSE WalkReturn("no_code_field", {})
       \/ WalkRaise
    /\ Still

\* _submit_3ds returned (it swallows the faults of its clicks)
walk_submit_3ds ==
    /\ Walking("3ds", "submit")
    /\ walk' = [walk EXCEPT !.pc = "code_wait", !.loop = "code", !.polls = 0]
    /\ Still

\* for _ in range(60): wait_for_timeout(500); low = (url + body).lower();
\* success / wrong code / declined -> return; after the loop: final check
walk_code_poll ==
    /\ Walking("3ds", "code_wait")
    /\ \/ \E low \in SUBSET Vocab :
             LET polls == walk.polls + 1
                 class == complete_classify(low)
             IN  IF class # "again"
                 THEN WalkPolled(class, low, polls)
                 ELSE walk' = [walk EXCEPT !.polls = polls, !.low = low,
                                  !.exhausted = code_exhausted(polls),
                                  !.pc = IF code_exhausted(polls)
                                         THEN "final_check" ELSE "code_wait"]
       \/ WalkRaise
    /\ Still

\* final_url = page.url; final_body = await page.content(); success words ->
\* success, otherwise the undetermined result with final_url
walk_final_check ==
    /\ Walking("3ds", "final_check")
    /\ \/ \E low \in SUBSET Vocab :
             WalkReturn(IF final_success(low) THEN "success"
                        ELSE "undetermined", low)
       \/ WalkRaise
    /\ Still

WalkNext ==
    \/ walk_begin
    \/ walk_click
    \/ walk_nav_poll
    \/ walk_load_state
    \/ walk_site_content
    \/ walk_recheck
    \/ walk_settle
    \/ walk_fill
    \/ walk_submit
    \/ walk_pay_poll
    \/ walk_code_fill
    \/ walk_submit_3ds
    \/ walk_code_poll
    \/ walk_final_check

\* Every awaited browser operation returns or raises.
SpecWalk == Init /\ [][WalkNext]_vars /\ WF_vars(WalkNext)

\* -------------------------------------------------------------- _try_fill

\* The calls of _try_fill are followed on their own: a candidate list and a
\* page are chosen at the call, and the helper goes through the list, one
\* awaited browser operation after the other.

\* What the page gives for a selector:
\*   "absent": el.count() returns 0       "count_raises": el.count() raises
\*   "field": count() > 0, click() and type() return
\*   "click_raises": count() > 0, el.first.click() raises
\*   "type_raises": count() > 0, click() returns, el.first.type() raises
Elements == {"absent", "field", "count_raises", "click_raises", "type_raises"}

Pages == [Selectors -> Elements]

\* The candidate lists: every list of at most MaxSelectors selectors.
SelectorLists ==
    UNION {[1..n -> Selectors] : n \in 0..MaxSelectors}

\* Mutation: the loop giving up after its first selector.
more_selectors_never(selectors, i) == FALSE

\* for sel in selectors: there is a selector after position i
more_selectors(selectors, i) == i < Len(selectors)

\* The selector at position i gave nothing (count() == 0, or `except
\* Exception: continue`): the next one is tried, or the loop is over and
\* the helper returns False.
fill_continue(f) ==
    IF more_selectors(f.selectors, f.i)
    THEN [f EXCEPT !.i = @ + 1, !.pc = "count"]
    ELSE [f EXCEPT !.pc = "done", !.ret = "False"]

\* The element the page gives for the selector being tried.
fill_element == fill.page[fill.selectors[fill.i]]

StillFill ==
    UNCHANGED <<sessions, browsers, tasks, has_playwright, walk, chat, card,
                form>>

\* _try_fill(target, selectors, value) is called: el = target.locator(sel)
\* for the first selector and el.count() is awaited; with an empty list it
\* returns False at once.
try_fill ==
    /\ fill.pc = "idle"
    /\ \E selectors \in SelectorLists, page \in Pages :
          fill' = fill_continue([NoFill EXCEPT !.selectors = selectors,
                                               !.page = page])
    /\ StillFill

\* await el.count() returned or raised; if count > 0: await el.first.click()
try_fill_count ==
    /\ fill.pc = "count"
    /\ fill' = IF fill_element \in {"absent", "count_raises"}
               THEN fill_continue(fill)
               ELSE [fill EXCEPT !.pc = "click"]
    /\ StillFill

\* await el.first.click() returned or raised;
\* await el.first.type(value, delay=50)
try_fill_click ==
    /\ fill.pc = "click"
    /\ fill' = IF fill_element = "click_raises"
               THEN fill_continue(fill)
               ELSE [fill EXCEPT !.pc = "type"]
    /\ StillFill

\* await el.first.type(...) returned (return True) or raised
try_fill_type ==
    /\ fill.pc = "type"
    /\ fill' = IF fill_element = "type_raises"
               THEN fill_continue(fill)
               ELSE [fill EXCEPT !.pc = "done", !.ret = "True",
                                 !.typed = Append(@, fill.selectors[fill.i])]
    /\ StillFill

FillNext ==
    \/ try_fill
    \/ try_fill_count
    \/ try_fill_click
    \/ try_fill_type

SpecFill == Init /\ [][FillNext]_vars

\* ------------------------------------------------------------ the handlers

\* The handlers of bot/handlers/sessions.py are followed on their own, a
\* handler from its update to its end, the calls of a conversation one after
\* the other; what the purchase service returns to them is what the calls
\* above return.  The conversation of a user is followed either from its
\* beginning or from the point where select_person has received a success
\* from prepare_purchase: the session is stored and the chat state is
\* waiting_cvc with the purchase context.

\* config.persons: a person with a promo code and one without.
Persons ==
    <<[name |-> "Trainer", promo |-> "Shalaeva761o"],
      [name |-> "Katerina", promo |-> "None"]>>

\* The first field of the callback data "person:<idx>|<date>|<time>".
PersonIdx == {"all", "0", "1"}

Dates == {"05.11.2026", "06.11.2026"}
TimeRanges == {"10:00-11:00", "12:00-13:00"}

\* int(person_idx)
int(idx) == IF idx = "0" THEN 0 ELSE 1

\* config.persons[i]
Person(i) == Persons[i + 1]

\* The parameters of `async def prepare_purchase(...)`: none has a default,
\* and there is no **kwargs.
PrepareParameters ==
    {"user_id", "stadium_id", "date", "time_range", "promo", "name", "phone",
     "email"}

\* The keyword arguments select_person calls prepare_purchase with.
select_person_kwargs(u, person, date, time_range) ==
    [user_id |-> u, stadium_id |-> STADIUM_ID, date |-> date,
     time_range |-> time_range, promo |-> person.promo,
     person_name |-> person.name, name |-> "config.customer_name",
     phone |-> "config.customer_phone", email |-> "config.customer_email"]

\* Python binds a keyword call: a keyword that names no parameter, or a
\* parameter without argument, is a TypeError raised at the call.
binds(parameters, kwargs) == DOMAIN kwargs = parameters

\* What prepare_purchase returns with Playwright installed.
PrepareResults ==
    {PurchaseResult(TRUE, "None", "None", t, FALSE) : t \in Totals}
        \cup {PurchaseResult(FALSE, "None", e, "None", FALSE) :
                e \in {ERR_EXCEPTION, ERR_NO_QUANTITY}}
        \cup {Raised}

\* `result = await prepare_purchase(**kwargs)`: what comes back.
call_prepare(kwargs) ==
    IF binds(PrepareParameters, kwargs) THEN PrepareResults ELSE {Raised}

\* save_order(user_id, date, time_range, person_name, promo, status)
Order(u, date, time_range, person, status) ==
    [user_id |-> u, date |-> date, time_range |-> time_range,
     person_name |-> person.name, promo |-> person.promo, status |-> status]

StillChat ==
    UNCHANGED <<sessions, browsers, tasks, has_playwright, walk, fill, card,
                form>>

\* select_person: "all" shows the list; without Playwright the link is sent
\* and an order 'link_sent' saved; otherwise prepare_purchase is called and
\* its result handled: failure saves an order 'error', success sets
\* waiting_cvc and stores the purchase context.  An exception leaves the
\* handler where it is raised.
select_person(u, idx, date, time_range) ==
    /\ Len(chat.orders) < MaxOrders
    /\ LET l == [NoLast EXCEPT !.handler = "select_person", !.user = u,
                     !.person_idx = idx, !.date = date,
                     !.time_range = time_range, !.from = chat.fsm[u].state]
           person == Person(int(idx))
       IN  IF idx = "all"
           THEN chat' = [chat EXCEPT !.last = l]
           ELSE IF ~has_playwright
           THEN chat' = [chat EXCEPT !.last = l, !.orders =
                           Append(@, Order(u, date, time_range, person,
                                           "link_sent"))]
           ELSE \E r \in call_prepare(
                            select_person_kwargs(u, person, date, time_range)) :
                   chat' =
                     IF r.ret # "value"
                     THEN [chat EXCEPT !.last = [l EXCEPT !.raised = TRUE]]
                     ELSE IF ~r.success
                     THEN [chat EXCEPT !.last = l, !.orders =
                              Append(@, Order(u, date, time_range, person,
                                              "error"))]
                     ELSE [chat EXCEPT !.last = l, !.fsm[u] =
                              [state |-> "waiting_cvc",
                               data |-> [person_idx |-> int(idx),
                                         date |-> date,
                                         time_range |-> time_range]]]
    /\ StillChat

\* message.text is a string of characters; a message without text (a
\* photo, a sticker) has text None, written <<"None">>.
NoText == <<"None">>

\* The message texts a user sends.
Texts ==
    {<<"1", "2", "3">>, <<" ", "1", "2", "3", " ">>, <<"1", "2">>,
     <<"1", "2", "a">>, <<"1", " ", "3">>, <<"1", "2", "3", "4">>,
     <<"1", "2", "3", "4", "5", "6", "7", "8">>,
     <<"1", "2", "3", "4", "5", "6", "7", "8", "9">>, <<>>, NoText}

DigitChars == {"0", "1", "2", "3", "4", "5", "6", "7", "8", "9"}

RECURSIVE lstrip(_)
\* str.lstrip()
lstrip(t) == IF t # <<>> /\ Head(t) = " " THEN lstrip(Tail(t)) ELSE t

RECURSIVE rstrip(_)
\* str.rstrip()
rstrip(t) ==
    IF t # <<>> /\ t[Len(t)] = " " THEN rstrip(SubSeq(t, 1, Len(t) - 1)) ELSE t

\* str.strip()
strip(t) == rstrip(lstrip(t))

\* Mutation: a check that accepts every text.
isdigit_any(t) == TRUE

\* str.isdigit(): not empty, and every character a digit
isdigit(t) == t # <<>> /\ \A n \in 1..Len(t) : t[n] \in DigitChars

\* process_cvc: `not cvc.isdigit() or len(cvc) != 3`
cvc_rejected(cvc) == ~isdigit(cvc) \/ Len(cvc) # 3

\* process_sms: `not sms_code.isdigit() or len(sms_code) < 4 or
\* len(sms_code) > 8`
sms_rejected(sms_code) ==
    ~isdigit(sms_code) \/ Len(sms_code) < 4 \/ Len(sms_code) > 8

\* Mutation: state.clear() leaving the context as it is.
clear_nothing(fsm, u) == fsm

\* await state.clear(): the FSM storage afterwards
clear(fsm, u) == [fsm EXCEPT ![u] = [state |-> "None", data |-> NoData]]

\* session.close() from its call to its return.
close(b, s) == close_stop(close_begin(b, s), s)

\* A call of confirm_and_pay or complete_3ds from its call to its return:
\* the result, and the registry and the sessions afterwards.
phase_returns(kind, u) ==
    LET s == take(u)
    IN  IF s = 0
        THEN {[res |-> result_expired(IF kind = "confirm"
                                      THEN ERR_SESSION_EXPIRED
                                      ELSE ERR_3DS_EXPIRED),
               reg |-> sessions, b |-> browsers]}
        ELSE {LET reg == after_branch(pop(sessions, u), u, s,
                                      Reinserts(kind, branch))
              IN  [res |-> Result(kind, branch, browsers[s].total),
                   reg |-> reg,
                   b |-> IF finally_closes(reg, u) THEN close(browsers, s)
                         ELSE browsers] : branch \in Branches(kind)}

\* `if result.payment_url:`
truthy(payment_url) == payment_url # "None"

\* Mutation: the fallback link branch left out.
payment_status_no_link(result) ==
    IF result.success THEN "paid"
    ELSE IF result.needs_sms THEN "waiting_sms"
    ELSE "error"

\* The branch _handle_payment_result takes: the status of the order it
\* saves, or "waiting_sms" for the branch that saves none.
payment_status(result) ==
    IF result.success THEN "paid"
    ELSE IF result.needs_sms THEN "waiting_sms"
    ELSE IF truthy(result.payment_url) THEN "payment_link"
    ELSE "error"

\* _handle_payment_result(message, state, result, person, date, time_range,
\* person_idx): the chat afterwards.
handle_payment_result(ch, u, result, person, date, time_range, person_idx) ==
    IF payment_status(result) = "waiting_sms"
    THEN [ch EXCEPT !.fsm[u] =
             [state |-> "waiting_sms",
              data |-> [person_idx |-> person_idx, date |-> date,
                        time_range |-> time_range]]]
    ELSE [ch EXCEPT !.orders =
             Append(@, Order(u, date, time_range, person,
                             payment_status(result)))]

\* The part process_cvc and process_sms share: the text is checked, the
\* purchase context read from the FSM data, the phase called and its result
\* handled.  process_cvc clears the FSM context before the call.
process_text(u, text, handler, kind, rejected, clears) ==
    /\ chat.fsm[u].state = (IF kind = "confirm" THEN "waiting_cvc"
                            ELSE "waiting_sms")
    /\ Len(chat.orders) < MaxOrders
    /\ LET l == [NoLast EXCEPT !.handler = handler, !.user = u,
                     !.text = text, !.from = chat.fsm[u].state]
           data == chat.fsm[u].data
       IN  IF text = NoText
           THEN /\ chat' = [chat EXCEPT !.last = [l EXCEPT !.raised = TRUE]]
                /\ UNCHANGED <<sessions, browsers>>
           ELSE IF rejected
           THEN /\ chat' = [chat EXCEPT !.last = l]
                /\ UNCHANGED <<sessions, browsers>>
           ELSE \E o \in phase_returns(kind, u) :
                   /\ sessions' = o.reg
                   /\ browsers' = o.b
                   /\ chat' = handle_payment_result(
                         [chat EXCEPT
                             !.fsm = IF clears THEN clear(@, u) ELSE @,
                             !.last = [l EXCEPT !.called = kind,
                                                !.result = o.res]],
                         u, o.res, Person(data.person_idx), data.date,
                         data.time_range, data.person_idx)
    /\ UNCHANGED <<tasks, has_playwright, walk, fill, card, form>>

\* process_cvc: cvc = message.text.strip(); three digits, or the hint and
\* return; state.clear(); confirm_and_pay; _handle_payment_result
process_cvc(u, text) ==
    process_text(u, text, "process_cvc", "confirm", cvc_rejected(strip(text)),
                 TRUE)

\* process_sms: sms_code = message.text.strip(); 4 to 8 digits, or the hint
\* and return; complete_3ds; _handle_payment_result
process_sms(u, text) ==
    process_text(u, text, "process_sms", "3ds", sms_rejected(strip(text)),
                 FALSE)

\* cancel_purchase_handler: state.clear(); cancel_purchase(user_id), which
\* pops the stored session and closes it; the "cancelled" message
cancel_purchase_handler(u) ==
    /\ chat' = [chat EXCEPT !.fsm = clear(@, u), !.last =
                   [NoLast EXCEPT !.handler = "cancel_purchase_handler",
                                  !.user = u, !.from = chat.fsm[u].state,
                                  !.called = "cancel"]]
    /\ sessions' = pop(sessions, u)
    /\ browsers' = IF sessions[u] # 0 THEN close(browsers, sessions[u])
                   ELSE browsers
    /\ UNCHANGED <<tasks, has_playwright, walk, fill, card, form>>

ChatNext ==
    \/ \E u \in Users, idx \in PersonIdx, date \in Dates,
          time_range \in TimeRanges : select_person(u, idx, date, time_range)
    \/ \E u \in Users, text \in Texts : process_cvc(u, text)
    \/ \E u \in Users, text \in Texts : process_sms(u, text)
    \/ \E u \in Users : cancel_purchase_handler(u)

\* The purchase contexts select_person stores.
Contexts ==
    [person_idx : {int(idx) : idx \in PersonIdx \ {"all"}}, date : Dates,
     time_range : TimeRanges]

\* The user of the driver b in the initial states: the first user has the
\* first driver, the second the second.
InitUser(b) == IF b = 1 THEN "u1" ELSE "u2"

\* A conversation that starts, or one in which select_person has shown the
\* summary: prepare_purchase has stored the user's session and the chat
\* state is waiting_cvc.
InitChat ==
    /\ tasks = [c \in Slots |-> IdleTask]
    /\ has_playwright \in BOOLEAN
    /\ walk = NoWalk
    /\ fill = NoFill
    /\ card = NoCard
    /\ form = NoForm
    /\ \E prepared \in SUBSET Users :
          /\ sessions = [u \in Users |->
                            IF u \in prepared
                            THEN CHOOSE b \in 1..2 : InitUser(b) = u ELSE 0]
          /\ \E total \in Totals :
                browsers = [b \in Browsers |->
                    IF b \in 1..2 /\ InitUser(b) \in prepared
                    THEN [FreeBrowser EXCEPT !.user = InitUser(b),
                             !.stage = "session", !.total = total,
                             !.timer = "armed"]
                    ELSE FreeBrowser]
          /\ \E ctx \in Contexts :
                chat = [NoChat EXCEPT !.fsm =
                           [u \in Users |->
                               IF u \in prepared
                               THEN [state |-> "waiting_cvc", data |-> ctx]
                               ELSE [state |-> "None", data |-> NoData]]]

SpecChat == InitChat /\ [][ChatNext]_vars

\* ------------------------------------------------------------- _fill_card

\* A call of _fill_card is followed on its own: the expiry string and the
\* frames of the bank page are chosen at the call, and what the page gives
\* for the selectors is chosen when a field is looked up.

\* config.card_expiry: "12/28", "1228", "12/28/" and "/".
Expiries ==
    {<<"1", "2", "/", "2", "8">>, <<"1", "2", "2", "8">>,
     <<"1", "2", "/", "2", "8", "/">>, <<"/">>}

\* The card_number and card_cvv arguments.
CardNumber == <<"4", "1", "1", "1">>
CardCvv == <<"1", "2", "3">>

\* A frame of the page other than the main frame: the number of its input
\* elements, or frame.locator("input").count() raises.
Frames ==
    {[raises |-> TRUE, count |-> 0]}
        \cup {[raises |-> FALSE, count |-> n] : n \in 1..3}

\* page.frames without the main frame: no, one or two iframes.
FrameLists == UNION {[1..n -> Frames] : n \in 0..MaxFrames}

\* str.replace(old, ""): the string without the character old
replace(str, old) == SelectSeq(str, LAMBDA ch : ch # old)

RECURSIVE split(_, _)
\* str.split(sep) for a separator of one character
split(str, sep) ==
    IF \A n \in 1..Len(str) : str[n] # sep
    THEN <<str>>
    ELSE LET at == CHOOSE n \in 1..Len(str) :
                      str[n] = sep /\ \A k \in 1..(n - 1) : str[k] # sep
         IN  <<SubSeq(str, 1, at - 1)>>
                 \o split(SubSeq(str, at + 1, Len(str)), sep)

RECURSIVE choose_target(_, _)
\* for frame in page.frames: the first iframe, from position i on, whose
\* input count is at least 2 (0: none, the target stays the page)
choose_target(frames, i) ==
    IF i > Len(frames) THEN 0
    ELSE IF ~frames[i].raises /\ frames[i].count >= 2 THEN i
    ELSE choose_target(frames, i + 1)

\* The candidate list of a field, in terms of the selectors of _try_fill.
FieldSelectors == <<"sel1", "sel2", "sel3">>

\* What _try_fill(target, selectors, value) returns on a page: True when
\* some selector of the list gives an element that count(), click() and
\* type() succeed on.
try_fill_returns(selectors, page) ==
    \E n \in 1..Len(selectors) : page[selectors[n]] = "field"

\* The value went into the field.
Typed(c, field, value) ==
    [c EXCEPT !.typed = Append(@, [field |-> field, value |-> value])]

\* Mutation: the result requiring the expiry as well.
fill_card_returns_all(card_ok, expiry_ok, cvv_ok) ==
    card_ok /\ expiry_ok /\ cvv_ok

\* return card_ok and cvv_ok
fill_card_returns(card_ok, expiry_ok, cvv_ok) == card_ok /\ cvv_ok


\* One pass of the month/year loop:
\*   "m_absent", "y_absent": a count() is 0
\*   "m_count_raises", "y_count_raises", "m_type_raises": an operation raises
\*       before anything is typed
\*   "y_type_raises": the month is typed, typing the year raises
\*   "typed": both are typed
PairOutcomes ==
    {"m_absent", "y_absent", "m_count_raises", "y_count_raises",
     "m_type_raises", "y_type_raises", "typed"}

StillCard ==
    UNCHANGED <<sessions, browsers, tasks, has_playwright, walk, fill, chat,
                form>>

\* _fill_card(page, card_number, card_expiry, card_cvv) is called: the
\* frame loop chooses the target, and _try_fill is awaited for the card
\* number.
fill_card ==
    /\ card.pc = "idle"
    /\ \E card_expiry \in Expiries, frames \in FrameLists :
          card' = [NoCard EXCEPT !.pc = "card", !.card_expiry = card_expiry,
                                 !.frames = frames,
                                 !.target = choose_target(frames, 1),
                                 !.calls = <<"card">>]
    /\ StillCard

\* card_ok = await _try_fill(target, _CARD_SELECTORS, card_number);
\* if not card_ok: return False; await page.wait_for_timeout(500)
fill_card_number ==
    /\ card.pc = "card"
    /\ \E page \in Pages :
          LET card_ok == try_fill_returns(FieldSelectors, page)
          IN  card' = IF card_ok
                      THEN [Typed(card, "card", CardNumber)
                               EXCEPT !.card_ok = TRUE, !.pc = "wait_expiry"]
                      ELSE [card EXCEPT !.pc = "done", !.ret = "False"]
    /\ StillCard

\* await page.wait_for_timeout(500) returned, and the next field is looked
\* up, or it raised and the exception leaves _fill_card.
fill_card_wait ==
    /\ card.pc \in {"wait_expiry", "wait_cvv"}
    /\ \E raised \in BOOLEAN :
          card' = IF raised THEN [card EXCEPT !.pc = "done", !.ret = "raised"]
                  ELSE IF card.pc = "wait_expiry"
                  THEN [card EXCEPT !.pc = "expiry",
                                    !.calls = Append(@, "expiry")]
                  ELSE [card EXCEPT !.pc = "cvv", !.calls = Append(@, "cvv")]
    /\ StillCard

\* expiry_ok = await _try_fill(target, _EXPIRY_SELECTORS,
\* card_expiry.replace("/", "")); if not expiry_ok: parts =
\* card_expiry.split("/"); if len(parts) == 2: the month/year loop
fill_card_expiry ==
    /\ card.pc = "expiry"
    /\ \E page \in Pages :
          LET expiry_ok == try_fill_returns(FieldSelectors, page)
              parts == split(card.card_expiry, "/")
          IN  card' = IF expiry_ok
                      THEN [Typed(card, "expiry",
                                  replace(card.card_expiry, "/"))
                               EXCEPT !.expiry_ok = TRUE, !.pc = "wait_cvv"]
                      ELSE IF Len(parts) = 2
                      THEN [card EXCEPT !.pc = "month_year", !.pair = 1,
                                        !.calls = Append(@, "month_year")]
                      ELSE [card EXCEPT !.pc = "wait_cvv"]
    /\ StillCard

\* One pass of `for m_sel, y_sel in [...]`: both fields present and typed
\* (expiry_ok = True; break), or the next pair, or the loop is over.
fill_card_month_year ==
    /\ card.pc = "month_year"
    /\ \E outcome \in PairOutcomes :
          LET parts == split(card.card_expiry, "/")
              month == Typed(card, "month", parts[1])
              next == IF card.pair < MonthYearPairs
                      THEN [pc |-> "month_year", pair |-> card.pair + 1]
                      ELSE [pc |-> "wait_cvv", pair |-> card.pair]
          IN  card' =
                IF outcome = "typed"
                THEN [Typed(month, "year", parts[2])
                         EXCEPT !.expiry_ok = TRUE, !.pc = "wait_cvv"]
                ELSE IF outcome = "y_type_raises"
                THEN [month EXCEPT !.pc = next.pc, !.pair = next.pair]
                ELSE [card EXCEPT !.pc = next.pc, !.pair = next.pair]
    /\ StillCard

\* cvv_ok = await _try_fill(target, _CVV_SELECTORS, card_cvv);
\* return card_ok and cvv_ok
fill_card_cvv ==
    /\ card.pc = "cvv"
    /\ \E page \in Pages :
          LET cvv_ok == try_fill_returns(FieldSelectors, page)
              c == IF cvv_ok THEN Typed(card, "cvv", CardCvv) ELSE card
          IN  card' = [c EXCEPT !.cvv_ok = cvv_ok, !.pc = "done", !.ret =
                          IF fill_card_returns(c.card_ok, c.expiry_ok, cvv_ok)
                          THEN "True" ELSE "False"]
    /\ StillCard

CardNext ==
    \/ fill_card
    \/ fill_card_number
    \/ fill_card_wait
    \/ fill_card_expiry
    \/ fill_card_month_year
    \/ fill_card_cvv

SpecCard == Init /\ [][CardNext]_vars

\* ------------------------------------- the order-form script (page.evaluate)

\* The script prepare_purchase evaluates in the page is followed on its
\* own, step by step as the script numbers them; what the page has for a
\* selector is chosen when the script looks it up.  An act is a change the
\* script makes to the form or a value it reads from it.

\* The promo argument: `promo or ""`.
Promos == {"", "Shalaeva761o"}

\* The steps of the script, in the order of its text:
\* 1 slot, 2 promo, 3 contacts, 4 card payment, 5 checkboxes, 6 quantity,
\* 7 total.
ScriptSteps ==
    <<"range", "promo", "contacts", "payment", "checkboxes", "quantity",
      "total">>

\* Mutation: the quantity step right after the slot selection.
next_step_quantity_early(step) ==
    CASE step = "range" -> "quantity"
      [] step = "quantity" -> "promo"
      [] step = "promo" -> "contacts"
      [] step = "contacts" -> "payment"
      [] step = "payment" -> "checkboxes"
      [] step = "checkboxes" -> "total"
      [] OTHER -> "done"

\* The step the script goes on with after `step`.
next_step(step) ==
    LET i == CHOOSE n \in 1..Len(ScriptSteps) : ScriptSteps[n] = step
    IN  IF i < Len(ScriptSteps) THEN ScriptSteps[i + 1] ELSE "done"

\* The script did `acts` and goes on after the step at hand.
FormDid(acts) ==
    form' = [form EXCEPT !.acts = @ \o acts, !.pc = next_step(form.pc)]

\* The acts of a lookup: the element is there and acted on, or it is not.
IfPresent(present, act) == IF present THEN <<act>> ELSE <<>>

\* The text of the total element '.summ_itog'; R is the rouble sign.
DisplayedTexts ==
    {<<"1", "5", "0", "0", " ", "R">>, <<"0">>, <<"0", " ", "R">>,
     <<" ", "0", " ", "R", " ">>, <<>>, <<" ">>, <<"absent">>}

\* The text of the unit price element '.chek_ticket_price'.
PriceTexts == {<<"1", "5", "0", "0", " ", "R">>, <<" ", "7", "5", "0", " ">>,
               <<"absent">>}

\* String.prototype.trim()
trim(text) == strip(text)

\* let total = totalEl ? totalEl.textContent.trim() : '?'
read_total(displayed) ==
    IF displayed = <<"absent">> THEN <<"?">> ELSE trim(displayed)

\* if (total === '0 R' || total === '0')
is_zero(total) == total \in {<<"0", " ", "R">>, <<"0">>}

\* The total of the returned object: the displayed total, or the unit
\* price when the displayed total is zero and the price element exists.
returned_total(displayed, price) ==
    IF is_zero(read_total(displayed)) /\ price # <<"absent">>
    THEN trim(price)
    ELSE read_total(displayed)

StillForm ==
    UNCHANGED <<sessions, browsers, tasks, has_playwright, walk, fill, chat,
                card>>

\* js_result = await page.evaluate(script, args): the script starts.
fill_form ==
    /\ form.pc = "idle"
    /\ \E promo \in Promos :
          form' = [NoForm EXCEPT !.pc = ScriptSteps[1], !.promo = promo]
    /\ StillForm

\* 1. '#order_range': the option of the slot is selected, or the first
\* option when none matches, or nothing (no dropdown, no options).
form_range ==
    /\ form.pc = "range"
    /\ \E dropdown \in {"absent", "match", "no_match", "empty"} :
          FormDid(IF dropdown = "match" THEN <<"range">>
                  ELSE IF dropdown = "no_match" THEN <<"range_fallback">>
                  ELSE <<>>)
    /\ StillForm

\* 2. if (promo): the promo input is set when it is there, and the apply
\* control clicked when it is there.
form_promo ==
    /\ form.pc = "promo"
    /\ \E input \in BOOLEAN, button \in BOOLEAN :
          FormDid(IF form.promo = "" THEN <<>>
                  ELSE IfPresent(input, "promo_set")
                          \o IfPresent(button, "promo_apply"))
    /\ StillForm

\* 3. setField for f_Name, f_Phone and f_Email: each is set when it is there.
form_contacts ==
    /\ form.pc = "contacts"
    /\ \E name \in BOOLEAN, phone \in BOOLEAN, email \in BOOLEAN :
          FormDid(IfPresent(name, "f_Name") \o IfPresent(phone, "f_Phone")
                      \o IfPresent(email, "f_Email"))
    /\ StillForm

\* 4. '#payment_2' is checked when it is there.
form_payment ==
    /\ form.pc = "payment"
    /\ \E radio \in BOOLEAN : FormDid(IfPresent(radio, "card_payment"))
    /\ StillForm

\* 5. every checkbox that is not checked is checked.
form_checkboxes ==
    /\ form.pc = "checkboxes"
    /\ \E unchecked \in 0..MaxCheckboxes :
          FormDid([n \in 1..unchecked |-> "checkbox"])
    /\ StillForm

\* 6. the plus control is clicked; without it the quantity input is set to
\* '1'; without either the script returns {error: 'No plus btn and no input'}.
form_quantity ==
    /\ form.pc = "quantity"
    /\ \E control \in {"plus", "input", "none"} :
          IF control = "none"
          THEN form' = [form EXCEPT !.pc = "done", !.ret = "error"]
          ELSE FormDid(IF control = "plus" THEN <<"plus">>
                       ELSE <<"quantity_1">>)
    /\ StillForm

\* 7. the total is read, the unit price when the total is zero and the
\* price element is there; return {success: true, total, log}.
form_total ==
    /\ form.pc = "total"
    /\ \E displayed \in DisplayedTexts, price \in PriceTexts :
          form' = [form EXCEPT
             !.acts = @ \o <<"read_total">>
                        \o IfPresent(is_zero(read_total(displayed))
                                         /\ price # <<"absent">>,
                                     "read_price"),
             !.displayed = displayed, !.price = price,
             !.total = returned_total(displayed, price),
             !.pc = next_step(form.pc), !.ret = "success"]
    /\ StillForm

\* catch (e): a statement of the script threw; return {error: String(e)}.
form_catch ==
    /\ form.pc \notin {"idle", "done"}
    /\ form' = [form EXCEPT !.pc = "done", !.ret = "error"]
    /\ StillForm

FormNext ==
    \/ fill_form
    \/ form_range
    \/ form_promo
    \/ form_contacts
    \/ form_payment
    \/ form_checkboxes
    \/ form_quantity
    \/ form_total
    \/ form_catch

SpecForm == Init /\ [][FormNext]_vars

\* ----------------------------------------------------------------- claims

Phase(c) == tasks[c].kind \in {"confirm", "3ds"}

\* The call has just returned a PurchaseResult.
Returned(c) == tasks[c].pc = "done" /\ tasks[c].res.ret = "value"

\* A phase call that popped a session and has not returned yet.
Holds(c) ==
    /\ Phase(c)
    /\ tasks[c].sess # 0
    /\ tasks[c].pc \in {"running", "close_b", "close_p"}

\* The browser of the driver was launched.
Launched(b) == browsers[b].stage \in {"browser", "page", "session"}

\* C1: browser.close() is invoked at most once on every browser, whatever
\* the interleaving of the expiry timer, cancel_purchase, prepare_purchase
\* and the cleanup of the phases.
C1_BrowserClosedOnce == \A b \in Browsers : browsers[b].bclose <= 1

\* C2: when the expiry timer of a session has fired, the session's close()
\* ran to completion: browser.close() and pw.stop() were both invoked.
C2_ExpiryTearsDown ==
    \A b \in Browsers :
        browsers[b].timer = "fired" =>
            browsers[b].bclose >= 1 /\ browsers[b].pwstop >= 1

\* The dedicated session-expired message of a phase.
ExpiredMessage(kind) ==
    IF kind = "confirm" THEN ERR_SESSION_EXPIRED ELSE ERR_3DS_EXPIRED

\* C3: a session is held by at most one in-flight phase call, and a held
\* session is not in the registry, so that a phase call started meanwhile
\* cannot pop it; a phase call that popped nothing has returned the
\* session-expired failure.
C3_OneHolder ==
    /\ \A c, d \in Slots :
          (c # d /\ Holds(c) /\ Holds(d)) => tasks[c].sess # tasks[d].sess
    /\ \A c \in Slots : Holds(c) => sessions[tasks[c].user] # tasks[c].sess
    /\ \A c \in Slots :
          (Phase(c) /\ tasks[c].sess = 0) =>
              /\ Returned(c)
              /\ ~tasks[c].res.success
              /\ tasks[c].res.error = ExpiredMessage(tasks[c].kind)

\* C3 witness: a phase call holds the user's session while a second phase
\* call for the same user has returned session-expired.
C3_Witness ==
    \E c, d \in Slots :
        /\ c # d /\ Holds(c) /\ tasks[c].pc = "running"
        /\ Phase(d) /\ Returned(d)
        /\ tasks[d].user = tasks[c].user /\ tasks[d].sess = 0

\* C4: under calls that follow one another, a prepare_purchase that finds a
\* stored session has invoked its close() before it goes on, hence before it
\* stores the new session; and when a prepare_purchase returns success, the
\* registry holds the new session and every other launched browser of that
\* user has been closed.
C4_SecondPrepareClosesFirst ==
    \A c \in Slots :
        tasks[c].kind = "prepare" =>
            /\ tasks[c].prev # 0 => browsers[tasks[c].prev].bclose >= 1
            /\ (Returned(c) /\ tasks[c].res.success) =>
                  /\ sessions[tasks[c].user] = tasks[c].sess
                  /\ browsers[tasks[c].sess].bclose = 0
                  /\ \A b \in Browsers \ {tasks[c].sess} :
                        (Launched(b) /\ browsers[b].user = tasks[c].user)
                            => browsers[b].bclose >= 1

\* C4 witness: a second prepare_purchase has returned success after it
\* cancelled the session the first one stored.
C4_Witness ==
    \E c \in Slots :
        /\ tasks[c].kind = "prepare" /\ Returned(c) /\ tasks[c].res.success
        /\ tasks[c].prev # 0
        /\ browsers[tasks[c].prev].stage = "session"

\* C5: whenever a session is written into the registry over a different
\* stored session, close() has been invoked on the session it replaces.
C5_StoreClosesStored ==
    [][\A u \in Users :
          (sessions[u] # 0 /\ sessions'[u] # 0 /\ sessions'[u] # sessions[u])
              => browsers'[sessions[u]].bclose >= 1]_vars

\* C6: a phase call that popped a session and returns a result without
\* needs_sms has had close() invoked on that session by the time it returns.
C6_TerminalBranchCloses ==
    \A c \in Slots :
        (Phase(c) /\ Returned(c) /\ tasks[c].sess # 0
            /\ ~tasks[c].res.needs_sms)
                => browsers[tasks[c].sess].bclose >= 1

\* The result classes C7 speaks of.
IsTerminal3(r) ==
    r.success \/ r.error = ERR_DECLINED \/ r.error = ERR_SITE_ERROR

C8_NoSessionIsExpired ==
    [][\A c \in Slots :
          (/\ tasks[c].pc = "idle" /\ tasks'[c].pc # "idle"
           /\ tasks'[c].kind \in {"confirm", "3ds"}
           /\ sessions[tasks'[c].user] = 0)
              => /\ tasks'[c].pc = "done"
                 /\ tasks'[c].res.ret = "value"
                 /\ ~tasks'[c].res.success
                 /\ tasks'[c].res.error = ExpiredMessage(tasks'[c].kind)
                 /\ ~tasks'[c].res.needs_sms
                 /\ tasks'[c].res.payment_url = "None"
                 /\ sessions' = sessions
                 /\ browsers' = browsers]_vars

\* C8 witness: complete_3ds has returned for a user who has no session.
C8_Witness ==
    \E c \in Slots :
        /\ tasks[c].kind = "3ds" /\ Returned(c) /\ tasks[c].sess = 0
        /\ tasks[c].res.error = ERR_3DS_EXPIRED

\* C9: every returned PurchaseResult with success=True has error None and
\* needs_sms False.
C9_SuccessIsClean ==
    \A c \in Slots :
        (Returned(c) /\ tasks[c].res.success) =>
            tasks[c].res.error = "None" /\ ~tasks[c].res.needs_sms

\* C9 witness: a phase call has returned success.
C9_Witness ==
    \E c \in Slots : Phase(c) /\ Returned(c) /\ tasks[c].res.success

\* C10: in every returned PurchaseResult at most one of success=True,
\* needs_sms=True, payment_url set holds.
C10_OneClass ==
    \A c \in Slots :
        Returned(c) =>
            LET r == tasks[c].res
            IN  /\ ~(r.success /\ r.needs_sms)
                /\ ~(r.success /\ r.payment_url # "None")
                /\ ~(r.needs_sms /\ r.payment_url # "None")

\* C10 witness: a phase call has returned a fallback link.
C10_Witness ==
    \E c \in Slots :
        /\ Phase(c) /\ Returned(c) /\ tasks[c].res.payment_url # "None"
        /\ ~tasks[c].res.success /\ ~tasks[c].res.needs_sms

\* C11: no fault of a browser or driver operation leaves prepare_purchase,
\* confirm_and_pay or complete_3ds: every such call that is over has returned
\* a PurchaseResult.
C11_NoFaultEscapes ==
    \A c \in Slots :
        (tasks[c].pc = "done" /\ tasks[c].kind \in {"prepare", "confirm", "3ds"})
            => tasks[c].res.ret = "value"

\* The browser of the call was launched and the call did not store a session.
FailedAfterLaunch(c) ==
    /\ tasks[c].kind = "prepare" /\ Returned(c) /\ ~tasks[c].res.success
    /\ tasks[c].sess # 0
    /\ browsers[tasks[c].sess].stage \in {"browser", "page"}

\* C12: when a step of prepare_purchase after the browser launch fails, the
\* call returns success=False with the error text of the failure, has stored
\* no session, and has invoked browser.close() and pw.stop() on the browser
\* it launched.
C12_FailedPrepareCleansUp ==
    \A c \in Slots :
        FailedAfterLaunch(c) =>
            /\ tasks[c].res.error = tasks[c].exc
            /\ tasks[c].res.error \in {ERR_EXCEPTION, ERR_NO_QUANTITY}
            /\ sessions[tasks[c].user] # tasks[c].sess
            /\ browsers[tasks[c].sess].timer = "none"
            /\ browsers[tasks[c].sess].bclose = 1
            /\ browsers[tasks[c].sess].pwstop = 1

\* C12 witness: prepare_purchase has returned the form script's error after
\* it opened the page.
C12_Witness ==
    \E c \in Slots :
        /\ FailedAfterLaunch(c)
        /\ browsers[tasks[c].sess].stage = "page"
        /\ tasks[c].res.error = ERR_NO_QUANTITY

\* C13: when prepare_purchase returns success, the registry holds its
\* session for the requester and the session's total_amount is the result's;
\* every result confirm_and_pay or complete_3ds returns after acting on a
\* session carries that session's total_amount.
C13_TotalCarriedThrough ==
    \A c \in Slots :
        /\ (tasks[c].kind = "prepare" /\ Returned(c) /\ tasks[c].res.success) =>
              /\ sessions[tasks[c].user] = tasks[c].sess
              /\ browsers[tasks[c].sess].stage = "session"
              /\ browsers[tasks[c].sess].total \in Totals
              /\ tasks[c].res.total_amount = browsers[tasks[c].sess].total
        /\ (Phase(c) /\ Returned(c) /\ tasks[c].sess # 0) =>
              /\ browsers[tasks[c].sess].stage = "session"
              /\ tasks[c].res.total_amount = browsers[tasks[c].sess].total

\* C13 witness: complete_3ds has returned success with the total read by
\* prepare_purchase.
C13_Witness ==
    \E c \in Slots :
        /\ tasks[c].kind = "3ds" /\ Returned(c) /\ tasks[c].res.success
        /\ tasks[c].sess # 0 /\ tasks[c].res.total_amount = "1500 R"

\* C14: cancel_purchase for a requester with a stored session empties the
\* requester's registry entry and invokes browser.close() on that session,
\* which thereby has been closed exactly once and whose timer will not fire;
\* with no stored session it changes nothing.
C14_CancelClosesOnce ==
    [][\A c \in Slots :
          (tasks[c].pc = "idle" /\ tasks'[c].kind = "cancel") =>
              LET u == tasks'[c].user
                  s == sessions[u]
              IN  IF s # 0
                  THEN /\ sessions'[u] = 0
                       /\ browsers'[s].bclose = 1
                       /\ browsers'[s].timer = "cancelled"
                  ELSE sessions' = sessions /\ browsers' = browsers]_vars

\* A call inside PurchaseSession.close(), awaiting browser.close() or
\* pw.stop().
Closing(c) ==
    tasks[c].pc \in {"close_b", "close_p", "pp_cancel_b", "pp_cancel_p"}

\* The session the call is closing.
Closed(c) == IF tasks[c].kind = "prepare" THEN tasks[c].prev ELSE tasks[c].sess

\* C15: close() never raises to its caller, whether browser.close() and
\* pw.stop() return or raise, and whether or not the session was closed
\* before: no step of a call that is inside close() ends the call with an
\* exception.
C15_CloseNeverRaises ==
    [][\A c \in Slots : Closing(c) => tasks'[c].res.ret # "raised"]_vars

\* C15 witness: a call is through browser.close() of its close() on a session
\* whose browser the expiry timer had closed before.
C15_Witness ==
    \E c \in Slots :
        /\ tasks[c].pc \in {"close_p", "pp_cancel_p"}
        /\ browsers[Closed(c)].timer = "fired"
        /\ browsers[Closed(c)].bclose = 2

\* complete_3ds has returned the wrong-code result.
WrongCode(c) ==
    /\ tasks[c].kind = "3ds" /\ Returned(c)
    /\ tasks[c].res.error = ERR_WRONG_CODE

\* C18: a page with the wrong-code vocabulary and no success vocabulary is a
\* wrong code; complete_3ds then returns success=False with needs_sms=True
\* and the registry holds the same session again, still open unless its
\* expiry has fired; and a complete_3ds call that finds a session in the
\* registry acts on that session instead of returning session-expired, so a
\* wrong code can follow a wrong code any number of times.
C18_WrongCodeRetries ==
    [][/\ \A low \in SUBSET Vocab :
             ("wrong" \in low /\ ~has_success(low))
                 => complete_classify(low) = "wrong_code"
       /\ \A c \in Slots :
             /\ WrongCode(c)' =>
                   /\ ~tasks'[c].res.success /\ tasks'[c].res.needs_sms
                   /\ tasks'[c].res.payment_url = "None"
                   /\ sessions'[tasks'[c].user] = tasks'[c].sess
                   /\ browsers'[tasks'[c].sess].timer = "armed"
                         => /\ browsers'[tasks'[c].sess].bclose = 0
                            /\ browsers'[tasks'[c].sess].pwstop = 0
             /\ (/\ tasks[c].pc = "idle" /\ tasks'[c].kind = "3ds"
                 /\ sessions[tasks'[c].user] # 0)
                   => /\ tasks'[c].pc = "running"
                      /\ tasks'[c].sess = sessions[tasks'[c].user]]_vars

\* C18 witness: complete_3ds has returned the wrong-code result and its
\* session, with its timer pending, is back in the registry.
C18_Witness ==
    \E c \in Slots :
        /\ WrongCode(c)
        /\ sessions[tasks[c].user] = tasks[c].sess
        /\ browsers[tasks[c].sess].timer = "armed"

\* C19: when complete_3ds returns the decline result, it has success=False,
\* needs_sms=False and no payment_url, the session has been closed and is
\* not in the registry, and the registry holds no session for the requester,
\* so that a following complete_3ds call returns session-expired.
C19_DeclineIsTerminal ==
    \A c \in Slots :
        (tasks[c].kind = "3ds" /\ Returned(c)
            /\ tasks[c].res.error = ERR_DECLINED) =>
                /\ ~tasks[c].res.success /\ ~tasks[c].res.needs_sms
                /\ tasks[c].res.payment_url = "None"
                /\ browsers[tasks[c].sess].bclose >= 1
                /\ sessions[tasks[c].user] = 0

\* C20: whenever confirm_and_pay returns that it could not reach the bank
\* page or could not fill the card, the result carries a fallback URL.
C20_FallbackUrlOnBankFailure ==
    \A c \in Slots :
        (tasks[c].kind = "confirm" /\ Returned(c)
            /\ tasks[c].res.error \in {ERR_NO_BANK, ERR_FILL_FAILED})
                => tasks[c].res.payment_url # "None"

\* C16: provided every browser operation returns or raises, every phase
\* call ends with a result, also when the page never navigates and never
\* shows a recognised word: the navigation wait makes at most 60 polls, the
\* payment-result wait at most 40 and the code-result wait at most 60.
C16_PhaseTerminates ==
    /\ [](/\ walk.loop = "nav" => walk.polls <= NAV_POLLS
          /\ walk.loop = "pay" => walk.polls <= PAY_POLLS
          /\ walk.loop = "code" => walk.polls <= CODE_POLLS
          /\ walk.pc = "done" => walk.res.ret = "value")
    /\ (walk.fn # "none") ~> (walk.pc = "done")

\* C16 witness: confirm_and_pay has returned after the last of its 40
\* result polls matched nothing.
C16_Witness ==
    /\ walk.fn = "confirm" /\ walk.pc = "done"
    /\ walk.polls = PAY_POLLS /\ walk.branch = "unknown_status"

\* The words a result loop and the final check recognise.
Recognised(fn) ==
    IF fn = "confirm" THEN {"success", "paid", "3ds"}
    ELSE {"success", "paid", "wrong", "declined"}

\* The result loop ran out and no recognised word was seen afterwards.
ExhaustedNoKeyword ==
    /\ walk.pc = "done" /\ walk.exhausted
    /\ walk.low \cap Recognised(walk.fn) = {}

\* The result C17 expects.
IsFallback(r) ==
    ~r.success /\ ~r.needs_sms /\ r.payment_url # "None"

AtCardEntry == walk.fn = "confirm" /\ walk.entered

\* C21: in confirm_and_pay, when the URL after the navigation wait is still
\* on the origin site, an error word in the page content fails the call at
\* once with the site-rejected-order result; otherwise the URL is read again
\* after the grace wait, once: still on the origin site fails the call with
\* could-not-reach-bank, elsewhere the call goes on to the card entry.  A
\* call that ends before the card entry has typed no card data and clicked
\* no pay control.
C21_OriginSiteCheck ==
    /\ walk.rechecks <= 1
    /\ walk.error_word =>
          /\ walk.first_url = "origin" /\ walk.pc = "done"
          /\ walk.res = result_site_error(walk.total)
          /\ walk.rechecks = 0
    /\ walk.pc = "recheck" =>
          walk.first_url = "origin" /\ ~walk.error_word /\ walk.rechecks = 0
    /\ walk.rechecks = 1 =>
          /\ walk.first_url = "origin" /\ ~walk.error_word
          /\ IF walk.url = "origin"
             THEN /\ walk.pc = "done" /\ ~walk.entered
                  /\ walk.res = result_no_bank(walk.total)
             ELSE AtCardEntry
    /\ (AtCardEntry /\ walk.first_url = "origin") =>
          walk.rechecks = 1 /\ walk.url = "bank"
    /\ (walk.fn = "confirm" /\ walk.pc = "done" /\ ~walk.entered
            /\ walk.first_url = "origin" /\ walk.branch # "exception")
          => walk.branch = IF walk.error_word THEN "site_error" ELSE "no_bank"
    /\ (walk.fn = "confirm" /\ ~walk.entered) =>
          ~walk.typed /\ ~walk.clicked
    /\ walk.res.error \in {ERR_SITE_ERROR, ERR_NO_BANK} => ~walk.entered

\* C21 witness: confirm_and_pay has returned could-not-reach-bank after the
\* one re-check, and nothing was typed or clicked.
C21_Witness ==
    /\ walk.fn = "confirm" /\ walk.pc = "done" /\ walk.branch = "no_bank"
    /\ walk.rechecks = 1 /\ ~walk.typed /\ ~walk.clicked

\* The step changes the registry entry of the user or the record of a
\* session of the user (its timer, its browser.close() or pw.stop() count).
Touched(u) ==
    \/ sessions'[u] # sessions[u]
    \/ \E b \in Browsers :
          /\ browsers[b].user = u /\ browsers'[b].user = u
          /\ browsers'[b] # browsers[b]

\* The step is a step of a call made for the user, or the firing of the
\* expiry timer of one of the user's sessions.
Actor(u) ==
    \/ \E c \in Slots :
          tasks'[c] # tasks[c] /\ u \in {tasks[c].user, tasks'[c].user}
    \/ \E b \in Browsers :
          /\ browsers[b].user = u
          /\ browsers[b].timer = "armed" /\ browsers'[b].timer = "fired"

\* C22: under every interleaving, a step that removes, replaces or closes
\* the registry entry or a session of a requester is a step of an operation
\* performed for that requester (prepare_purchase, confirm_and_pay,
\* complete_3ds, cancel_purchase or the expiry timer of one of the
\* requester's sessions) and of no other requester.
C22_RequestersAreIsolated ==
    [][\A u \in Users :
          Touched(u) => /\ Actor(u)
                        /\ \A v \in Users \ {u} : ~Actor(v)]_vars

\* C22 witness: the expiry timer of a session of one requester has fired
\* while another requester has an open session in the registry.
C22_Witness ==
    \E b \in Browsers, u \in Users :
        /\ browsers[b].timer = "fired" /\ browsers[b].user # u
        /\ sessions[u] # 0 /\ sessions[u] # b
        /\ browsers[sessions[u]].timer = "armed"
        /\ browsers[sessions[u]].bclose = 0

\* C23: once cancel_purchase for a requester has returned, no confirm_and_pay
\* or complete_3ds call started later for that requester pops a session that
\* was created before that cancel, also when the cancel ran while a phase
\* call of the requester was in flight.
C23_CancelPreventsReuse ==
    [][\A c \in Slots :
          (/\ tasks[c].pc = "idle" /\ tasks'[c].kind \in {"confirm", "3ds"}
           /\ tasks'[c].sess # 0)
              => ~browsers[tasks'[c].sess].stale]_vars

\* The selectors of the list.
Listed == {fill.selectors[n] : n \in 1..Len(fill.selectors)}

\* The page exposes the field under exactly one selector of the list: one
\* listed selector gives the field, every other listed selector gives no
\* element.
ExposedUnderOne ==
    /\ Cardinality({x \in Listed : fill.page[x] = "field"}) = 1
    /\ \A x \in Listed : fill.page[x] \in {"field", "absent", "count_raises"}

\* No selector of the list gives an element.
NothingMatches ==
    \A x \in Listed : fill.page[x] \in {"absent", "count_raises"}

\* C24: for every candidate list and every page that exposes the field
\* under exactly one selector of the list, _try_fill returns True and has
\* typed the value exactly once, into that field, whatever the position of
\* the selector in the list; when no selector matches it returns False and
\* has typed nothing.
C24_TryFillFindsTheField ==
    fill.pc = "done" =>
        /\ ExposedUnderOne =>
              /\ fill.ret = "True"
              /\ Len(fill.typed) = 1
              /\ fill.page[fill.typed[1]] = "field"
        /\ NothingMatches => fill.ret = "False" /\ fill.typed = <<>>

\* C24 witness: _try_fill has returned True on a list of three selectors
\* whose last one gives the field, after count() raised for an earlier one.
C24_Witness ==
    /\ fill.pc = "done" /\ ExposedUnderOne /\ fill.ret = "True"
    /\ Len(fill.selectors) = MaxSelectors /\ fill.i = MaxSelectors
    /\ fill.page[fill.selectors[1]] = "count_raises"

\* C25: every PurchaseResult with success=False that prepare_purchase,
\* confirm_and_pay or complete_3ds returns carries an error text or a
\* payment_url.
C25_FailureIsExplained ==
    \A c \in Slots :
        (Returned(c) /\ ~tasks[c].res.success) =>
            tasks[c].res.error # "None" \/ tasks[c].res.payment_url # "None"

\* C25 witness: a phase call has returned the failure of its except block,
\* which carries the error text and no payment_url.
C25_Witness ==
    \E c \in Slots :
        /\ Phase(c) /\ Returned(c) /\ tasks[c].sess # 0
        /\ tasks[c].res = result_exception(Total(c))
        /\ tasks[c].res.error = ERR_EXCEPTION

\* C26: when select_person has handled the selection of a single person
\* with Playwright available, it has called prepare_purchase, and either the
\* chat state is waiting_cvc with person_idx, date and time_range stored, or
\* an order with status 'error' has been saved for that user, person and
\* slot and the chat state is unset.
C26_SelectPersonPrepares ==
    LET l == chat.last
    IN  (l.handler = "select_person" /\ l.person_idx # "all" /\ has_playwright)
          => /\ ~l.raised
             /\ \/ chat.fsm[l.user] =
                      [state |-> "waiting_cvc",
                       data |-> [person_idx |-> int(l.person_idx),
                                 date |-> l.date, time_range |-> l.time_range]]
                \/ /\ chat.fsm[l.user].state = "None"
                   /\ chat.orders # <<>>
                   /\ chat.orders[Len(chat.orders)] =
                         Order(l.user, l.date, l.time_range,
                               Person(int(l.person_idx)), "error")

\* C27: a session has one expiry timer, armed when it is constructed, and
\* re-inserting the session neither arms another nor resets it; hence every
\* session in the registry, re-inserted or not, has that timer pending and
\* is removed when SESSION_TTL has passed since its creation.
C27_ReinsertedExpiresOnTime ==
    \A u \in Users :
        sessions[u] # 0 => browsers[sessions[u]].timer = "armed"

\* C28: the expiry timer of a session removes from the registry that
\* session only: when a timer fires, a registry entry that changes held the
\* timer's own session.
C28_TimerRemovesOwnSession ==
    [][\A b \in Browsers :
          (browsers[b].timer = "armed" /\ browsers'[b].timer = "fired") =>
              \A u \in Users : sessions'[u] # sessions[u] => sessions[u] = b]_vars

\* C29: every session in the registry is live: neither browser.close() nor
\* pw.stop() has been invoked on it.
C29_StoredSessionIsLive ==
    \A u \in Users :
        sessions[u] # 0 =>
            /\ browsers[sessions[u]].bclose = 0
            /\ browsers[sessions[u]].pwstop = 0

\* C30: every launched browser is torn down completely in the end.  A
\* driver that no registry entry, no call and no pending timer refers to is
\* acted on by no later step, so by then browser.close() and pw.stop() have
\* both been invoked on it.
C30_EveryBrowserTornDown ==
    \A b \in Browsers :
        (Launched(b) /\ Unreferenced(b)) =>
            browsers[b].bclose >= 1 /\ browsers[b].pwstop >= 1

\* The step is one in which process_cvc or process_sms has called its phase
\* and handed the result to _handle_payment_result.
ResultHandled == chat' # chat /\ chat'.last.called \in {"confirm", "3ds"}

\* The purchase context the handler of the step read from the FSM data.
StepContext == chat.fsm[chat'.last.user].data

\* C31: _handle_payment_result classifies the result in the order success,
\* needs_sms, payment_url, error.  A needs_sms result saves no order and
\* sets the chat state to waiting_sms with person_idx, date and time_range
\* stored; every other result saves exactly one order, for the user, person
\* and slot of the context, with status 'paid' iff success, 'payment_link'
\* iff a payment_url is present, 'error' otherwise.
C31_ResultIsClassified ==
    [][ResultHandled =>
        LET u == chat'.last.user
            r == chat'.last.result
            ctx == StepContext
            status == IF r.success THEN "paid"
                      ELSE IF r.payment_url # "None" THEN "payment_link"
                      ELSE "error"
        IN  IF ~r.success /\ r.needs_sms
            THEN /\ chat'.orders = chat.orders
                 /\ chat'.fsm[u] =
                       [state |-> "waiting_sms",
                        data |-> [person_idx |-> ctx.person_idx,
                                  date |-> ctx.date,
                                  time_range |-> ctx.time_range]]
            ELSE chat'.orders =
                    Append(chat.orders,
                           Order(u, ctx.date, ctx.time_range,
                                 Person(ctx.person_idx), status))]_vars

\* A fallback link has been saved as 'payment_link' while the other user
\* was asked for the SMS code and has no order.
C31_Witness ==
    /\ chat.last.called \in {"confirm", "3ds"}
    /\ chat.last.result.payment_url # "None"
    /\ Len(chat.orders) = 1
    /\ chat.orders[1].status = "payment_link"
    /\ chat.orders[1].user_id = chat.last.user
    /\ \E v \in Users \ {chat.last.user} : chat.fsm[v].state = "waiting_sms"

DigitsOfLength(text, lo, hi) ==
    /\ text # NoText
    /\ Len(strip(text)) \in lo..hi
    /\ \A n \in 1..Len(strip(text)) : strip(text)[n] \in DigitChars

\* The text of the message passes the validation of the handler it went to.
ValidFor(handler, text) ==
    IF handler = "process_cvc" THEN DigitsOfLength(text, 3, 3)
    ELSE DigitsOfLength(text, 4, 8)

\* C33: process_cvc calls confirm_and_pay only for a text of exactly 3
\* digits and process_sms calls complete_3ds only for a text of 4 to 8
\* digits; for any other message no phase is called, the chat state and
\* its context stay as they were, no order is saved, and the registry and
\* the sessions are unchanged.
C33_InvalidInputKeepsSession ==
    [][(chat' # chat /\ chat'.last.handler \in {"process_cvc", "process_sms"})
        => LET l == chat'.last
           IN  /\ l.called # "none" => ValidFor(l.handler, l.text)
               /\ ~ValidFor(l.handler, l.text) =>
                     /\ l.called = "none"
                     /\ chat'.fsm = chat.fsm
                     /\ chat'.orders = chat.orders
                     /\ sessions' = sessions
                     /\ browsers' = browsers]_vars

\* A text that is not a code has been answered with the hint while the
\* user waits for the SMS code, the session still stored and open.
C33_Witness ==
    LET l == chat.last
    IN  /\ l.handler = "process_sms"
        /\ l.text = <<"1", "2", "a">>
        /\ l.called = "none"
        /\ chat.fsm[l.user].state = "waiting_sms"
        /\ sessions[l.user] # 0
        /\ browsers[sessions[l.user]].bclose = 0

\* C34: when cancel_purchase_handler has run for a user, the chat state of
\* the user is cleared and the registry holds no session for the user,
\* whatever the chat state was before.
C34_CancelClearsEverything ==
    LET l == chat.last
    IN  l.handler = "cancel_purchase_handler" =>
            /\ chat.fsm[l.user] = [state |-> "None", data |-> NoData]
            /\ sessions[l.user] = 0

\* The cancel button has been pressed while the SMS code was awaited, and
\* the stored session has been closed.
C34_Witness ==
    LET l == chat.last
    IN  /\ l.handler = "cancel_purchase_handler"
        /\ l.from = "waiting_sms"
        /\ chat.fsm[l.user].state = "None"
        /\ sessions[l.user] = 0
        /\ \E b \in Browsers : browsers[b].user = l.user /\ browsers[b].bclose = 1

\* The value went into the field f during the call.
Filled(f) == \E n \in 1..Len(card.typed) : card.typed[n].field = f

\* The lookup was made during the call.
Attempted(call) == \E n \in 1..Len(card.calls) : card.calls[n] = call

\* The number of "/" in the expiry string.
Slashes == Cardinality({n \in 1..Len(card.card_expiry) : card.card_expiry[n] = "/"})

\* C35: _fill_card returns True exactly when the card number and the CVV
\* were filled; when the card number field is not found it returns False
\* and has looked up neither expiry nor CVV; the expiry has no part in the
\* result; and the month/year fields are tried only when the combined
\* expiry field was not filled and the expiry string has exactly two parts
\* around its "/".
C35_FillCardResult ==
    /\ (card.pc = "done" /\ card.ret # "raised") =>
          /\ card.ret = "True" <=> (Filled("card") /\ Filled("cvv"))
          /\ ~Filled("card") => card.ret = "False" /\ card.calls = <<"card">>
    /\ Attempted("month_year") => ~Filled("expiry") /\ Slashes = 1
    /\ (Filled("month") \/ Filled("year")) => Attempted("month_year")

\* _fill_card has returned True without any expiry typed: the combined
\* field was missing and both month/year pairs were tried in vain.
C35_Witness ==
    /\ card.pc = "done" /\ card.ret = "True"
    /\ card.calls = <<"card", "expiry", "month_year", "cvv">>
    /\ ~Filled("expiry") /\ ~Filled("month") /\ ~Filled("year")
    /\ card.pair = MonthYearPairs

\* The call returned from inside its result wait, on the page text of the
\* poll it made last.
ReturnedFromPoll(fn) ==
    /\ walk.fn = fn /\ walk.pc = "done"
    /\ walk.loop = (IF fn = "confirm" THEN "pay" ELSE "code")
    /\ ~walk.exhausted
    /\ walk.branch # "exception"

\* The page text has one of the success words.
SuccessWord == walk.low \cap {"success", "paid"} # {}

QuantityActs == {"plus", "quantity_1"}
FieldActs ==
    {"range", "range_fallback", "promo_set", "promo_apply", "f_Name",
     "f_Phone", "f_Email", "card_payment", "checkbox"}

C38_TotalFallsBackToUnitPrice ==
    (form.pc = "done" /\ form.ret = "success"
        /\ form.displayed # <<"absent">>) =>
        form.total =
            IF trim(form.displayed) \in {<<"0">>, <<"0", " ", "R">>, <<>>}
                  /\ form.price # <<"absent">>
            THEN trim(form.price)
            ELSE trim(form.displayed)

====
